---- MODULE Spec2Model ----
(***************************************************************************)
(* Model of the Savant API stats aggregation and caching engine.           *)
(*                                                                         *)
(* Strings are sequences of one-character strings, so that substring,      *)
(* case folding, splitting and parseFloat are computed rather than         *)
(* assumed.  JavaScript numbers are exact rationals extended with NaN,     *)
(* Infinity and -Infinity; binary rounding and the sign of zero are not    *)
(* modelled (the inputs used are non-negative decimals).                   *)
(***************************************************************************)
EXTENDS Integers, Sequences, FiniteSets, TLC

(***************************************************************************)
(* JavaScript values                                                       *)
(***************************************************************************)
\* null, undefined and a thrown exception, for values modelled as records
\* (rows, numbers, reports, boxed snapshots)
Null == [k |-> "null"]
Undefined == [k |-> "undefined"]
Throw == [k |-> "throw"]

\* a non-null value of a variable that may hold null
Box(v) == [k |-> "val", v |-> v]

Abs(i) == IF i < 0 THEN 0 - i ELSE i

RECURSIVE Gcd(_, _)
Gcd(a, b) == IF b = 0 THEN a ELSE Gcd(b, a % b)

NaN == [k |-> "nan"]
PosInf == [k |-> "inf"]
NegInf == [k |-> "ninf"]

\* n/d divided through by g, with a positive denominator
FinBy(n, d, g) ==
    [k |-> "fin",
     n |-> (IF d < 0 THEN 0 - n ELSE n) \div g,
     d |-> (IF d < 0 THEN 0 - d ELSE d) \div g]

\* the finite number n/d in lowest terms
Fin(n, d) == FinBy(n, d, Gcd(Abs(n), Abs(d)))

IsFinite(x) == x.k = "fin"
IsInfinite(x) == x.k \in {"inf", "ninf"}

\* -1, 0 or 1 for a finite or infinite number
Sign(x) ==
    CASE x.k = "inf" -> 1
      [] x.k = "ninf" -> 0 - 1
      [] OTHER -> IF x.n > 0 THEN 1 ELSE IF x.n < 0 THEN 0 - 1 ELSE 0

InfOfSign(s) == IF s < 0 THEN NegInf ELSE PosInf

\* a / b
JSDiv(a, b) ==
    CASE a.k = "nan" \/ b.k = "nan" -> NaN
      [] IsInfinite(a) /\ IsInfinite(b) -> NaN
      [] IsInfinite(a) -> InfOfSign(Sign(a) * (IF Sign(b) < 0 THEN 0 - 1 ELSE 1))
      [] IsInfinite(b) -> Fin(0, 1)
      [] b.n = 0 -> IF a.n = 0 THEN NaN ELSE InfOfSign(Sign(a))
      [] OTHER -> Fin(a.n * b.d, a.d * b.n)

\* a * b
JSMul(a, b) ==
    CASE a.k = "nan" \/ b.k = "nan" -> NaN
      [] IsInfinite(a) \/ IsInfinite(b) ->
            IF Sign(a) = 0 \/ Sign(b) = 0 THEN NaN ELSE InfOfSign(Sign(a) * Sign(b))
      [] OTHER -> Fin(a.n * b.n, a.d * b.d)

\* a + b
JSAdd(a, b) ==
    CASE a.k = "nan" \/ b.k = "nan" -> NaN
      [] IsInfinite(a) /\ IsInfinite(b) -> IF a = b THEN a ELSE NaN
      [] IsInfinite(a) -> a
      [] IsInfinite(b) -> b
      [] OTHER -> Fin(a.n * b.d + b.n * a.d, a.d * b.d)

JSNeg(a) ==
    CASE a.k = "nan" -> NaN
      [] a.k = "inf" -> NegInf
      [] a.k = "ninf" -> PosInf
      [] OTHER -> Fin(0 - a.n, a.d)

\* a - b
JSSub(a, b) == JSAdd(a, JSNeg(b))

\* a > b (false when either side is NaN)
JSGt(a, b) ==
    CASE a.k = "nan" \/ b.k = "nan" -> FALSE
      [] a.k = "inf" -> b.k # "inf"
      [] a.k = "ninf" -> FALSE
      [] b.k = "inf" -> FALSE
      [] b.k = "ninf" -> TRUE
      [] OTHER -> a.n * b.d > b.n * a.d

\* truthiness of a number: 0 and NaN are falsy
NumTruthy(x) == ~(x.k = "nan" \/ (x.k = "fin" /\ x.n = 0))

\* x || y for a number x
NumOr(x, y) == IF NumTruthy(x) THEN x ELSE y

(***************************************************************************)
(* Strings                                                                 *)
(***************************************************************************)
LowerLetters == <<"a","b","c","d","e","f","g","h","i","j","k","l","m",
                  "n","o","p","q","r","s","t","u","v","w","x","y","z">>
UpperLetters == <<"A","B","C","D","E","F","G","H","I","J","K","L","M",
                  "N","O","P","Q","R","S","T","U","V","W","X","Y","Z">>
Digits == <<"0","1","2","3","4","5","6","7","8","9">>

\* the position of c in letters, 0 when it is not there
RECURSIVE IndexFrom(_, _, _)
IndexFrom(c, letters, i) ==
    IF i > Len(letters) THEN 0
    ELSE IF letters[i] = c THEN i
    ELSE IndexFrom(c, letters, i + 1)

IndexIn(c, letters) == IndexFrom(c, letters, 1)

\* the letter of `to` at position i, c itself when i is 0
LetterOr(to, i, c) == IF i > 0 THEN to[i] ELSE c

UpperChar(c) == LetterOr(UpperLetters, IndexIn(c, LowerLetters), c)
LowerChar(c) == LetterOr(LowerLetters, IndexIn(c, UpperLetters), c)

toUpperCase(s) == SubSeq([i \in 1..Len(s) |-> UpperChar(s[i])], 1, Len(s))
toLowerCase(s) == SubSeq([i \in 1..Len(s) |-> LowerChar(s[i])], 1, Len(s))

\* s.substring(from, to) with 0-based, end-exclusive indices, 0 <= from
substring(s, from, to) ==
    IF from >= to \/ from >= Len(s) THEN <<>>
    ELSE SubSeq(s, from + 1, IF to > Len(s) THEN Len(s) ELSE to)

\* hay.includes(needle)
includes(hay, needle) ==
    \E i \in 0..(Len(hay) - Len(needle)) :
        SubSeq(hay, i + 1, i + Len(needle)) = needle

\* the position of the last space of s[1..i], 0 when there is none
RECURSIVE LastSpace(_, _)
LastSpace(s, i) ==
    IF i = 0 THEN 0 ELSE IF s[i] = " " THEN i ELSE LastSpace(s, i - 1)

\* s.split(" ").pop(): what follows the last space of s (all of s without one)
splitPop(s) == SubSeq(s, LastSpace(s, Len(s)) + 1, Len(s))

\* undefined where a string is expected (an absent query parameter or cell)
UndefStr == <<"undefined">>

\* truthiness of a string or of undefined
StrTruthy(s) == s # UndefStr /\ s # <<>>

(***************************************************************************)
(* parseFloat                                                              *)
(***************************************************************************)
IsDigit(c) == IndexIn(c, Digits) > 0
DigitVal(c) == IndexIn(c, Digits) - 1

RECURSIVE SkipSpace(_, _)
SkipSpace(s, i) == IF i <= Len(s) /\ s[i] = " " THEN SkipSpace(s, i + 1) ELSE i

\* the index after the longest run of digits of s that starts at i
RECURSIVE DigitsEnd(_, _)
DigitsEnd(s, i) == IF i <= Len(s) /\ IsDigit(s[i]) THEN DigitsEnd(s, i + 1) ELSE i

\* the integer written by the digits s[i..j-1]
RECURSIVE DigitsVal(_, _, _)
DigitsVal(s, i, j) == IF i >= j THEN 0 ELSE DigitsVal(s, i, j - 1) * 10 + DigitVal(s[j - 1])

RECURSIVE Pow10(_)
Pow10(e) == IF e = 0 THEN 1 ELSE 10 * Pow10(e - 1)

InfinityWord == <<"I","n","f","i","n","i","t","y">>

\* digits s[i1..i2-1], a point at i2 and digits s[i2+1..i3-1]
ParseFraction(s, i1, i2, i3, sgn) ==
    IF i2 = i1 /\ i3 = i2 + 1 THEN NaN
    ELSE Fin(sgn * (DigitsVal(s, i1, i2) * Pow10(i3 - i2 - 1) + DigitsVal(s, i2 + 1, i3)),
             Pow10(i3 - i2 - 1))

\* digits s[i1..i2-1], then perhaps a point and more digits
ParseMantissa(s, i1, i2, sgn) ==
    IF i2 <= Len(s) /\ s[i2] = "."
    THEN ParseFraction(s, i1, i2, DigitsEnd(s, i2 + 1), sgn)
    ELSE IF i2 = i1 THEN NaN
    ELSE Fin(sgn * DigitsVal(s, i1, i2), 1)

\* the number that starts at i1, after the sign
ParseUnsigned(s, i1, sgn) ==
    IF substring(s, i1 - 1, i1 + 7) = InfinityWord THEN InfOfSign(sgn)
    ELSE ParseMantissa(s, i1, DigitsEnd(s, i1), sgn)

\* an optional sign at i0
ParseSigned(s, i0) ==
    IF i0 <= Len(s) /\ s[i0] = "-" THEN ParseUnsigned(s, i0 + 1, 0 - 1)
    ELSE IF i0 <= Len(s) /\ s[i0] = "+" THEN ParseUnsigned(s, i0 + 1, 1)
    ELSE ParseUnsigned(s, i0, 1)

\* parseFloat(s): the longest decimal prefix after leading blanks and a sign;
\* NaN when there is none.  Exponents are not modelled.
parseFloat(s) == ParseSigned(s, SkipSpace(s, 1))

(***************************************************************************)
(* Team identity                                                           *)
(***************************************************************************)
\* the map literal of normalizeTeamCode
TeamMap ==
    (<<"S",".","J">> :> <<"S","J","S">>) @@
    (<<"S","J">> :> <<"S","J","S">>) @@
    (<<"S","a","n"," ","J","o","s","e"," ","S","h","a","r","k","s">> :> <<"S","J","S">>) @@
    (<<"T",".","B">> :> <<"T","B","L">>) @@
    (<<"T","B">> :> <<"T","B","L">>) @@
    (<<"T","a","m","p","a"," ","B","a","y"," ","L","i","g","h","t","n","i","n","g">> :> <<"T","B","L">>) @@
    (<<"L",".","A">> :> <<"L","A","K">>) @@
    (<<"L","A">> :> <<"L","A","K">>) @@
    (<<"L","o","s"," ","A","n","g","e","l","e","s"," ","K","i","n","g","s">> :> <<"L","A","K">>) @@
    (<<"N",".","J">> :> <<"N","J","D">>) @@
    (<<"N","J">> :> <<"N","J","D">>) @@
    (<<"N","e","w"," ","J","e","r","s","e","y"," ","D","e","v","i","l","s">> :> <<"N","J","D">>) @@
    (<<"N","Y","R">> :> <<"N","Y","R">>) @@
    (<<"N","e","w"," ","Y","o","r","k"," ","R","a","n","g","e","r","s">> :> <<"N","Y","R">>) @@
    (<<"N","Y","I">> :> <<"N","Y","I">>) @@
    (<<"N","e","w"," ","Y","o","r","k"," ","I","s","l","a","n","d","e","r","s">> :> <<"N","Y","I">>) @@
    (<<"V","E","G">> :> <<"V","G","K">>) @@
    (<<"V","G","K">> :> <<"V","G","K">>) @@
    (<<"V","e","g","a","s"," ","G","o","l","d","e","n"," ","K","n","i","g","h","t","s">> :> <<"V","G","K">>) @@
    (<<"M","T","L">> :> <<"M","T","L">>) @@
    (<<"M","o","n","t","r","e","a","l"," ","C","a","n","a","d","i","e","n","s">> :> <<"M","T","L">>) @@
    (<<"V","A","N">> :> <<"V","A","N">>) @@
    (<<"V","a","n","c","o","u","v","e","r"," ","C","a","n","u","c","k","s">> :> <<"V","A","N">>) @@
    (<<"T","O","R">> :> <<"T","O","R">>) @@
    (<<"T","o","r","o","n","t","o"," ","M","a","p","l","e"," ","L","e","a","f","s">> :> <<"T","O","R">>) @@
    (<<"B","O","S">> :> <<"B","O","S">>) @@
    (<<"B","o","s","t","o","n"," ","B","r","u","i","n","s">> :> <<"B","O","S">>) @@
    (<<"B","U","F">> :> <<"B","U","F">>) @@
    (<<"B","u","f","f","a","l","o"," ","S","a","b","r","e","s">> :> <<"B","U","F">>) @@
    (<<"O","T","T">> :> <<"O","T","T">>) @@
    (<<"O","t","t","a","w","a"," ","S","e","n","a","t","o","r","s">> :> <<"O","T","T">>) @@
    (<<"F","L","A">> :> <<"F","L","A">>) @@
    (<<"F","l","o","r","i","d","a"," ","P","a","n","t","h","e","r","s">> :> <<"F","L","A">>) @@
    (<<"D","E","T">> :> <<"D","E","T">>) @@
    (<<"D","e","t","r","o","i","t"," ","R","e","d"," ","W","i","n","g","s">> :> <<"D","E","T">>) @@
    (<<"P","I","T">> :> <<"P","I","T">>) @@
    (<<"P","i","t","t","s","b","u","r","g","h"," ","P","e","n","g","u","i","n","s">> :> <<"P","I","T">>) @@
    (<<"W","S","H">> :> <<"W","S","H">>) @@
    (<<"W","a","s","h","i","n","g","t","o","n"," ","C","a","p","i","t","a","l","s">> :> <<"W","S","H">>) @@
    (<<"P","H","I">> :> <<"P","H","I">>) @@
    (<<"P","h","i","l","a","d","e","l","p","h","i","a"," ","F","l","y","e","r","s">> :> <<"P","H","I">>) @@
    (<<"C","B","J">> :> <<"C","B","J">>) @@
    (<<"C","o","l","u","m","b","u","s"," ","B","l","u","e"," ","J","a","c","k","e","t","s">> :> <<"C","B","J">>) @@
    (<<"C","A","R">> :> <<"C","A","R">>) @@
    (<<"C","a","r","o","l","i","n","a"," ","H","u","r","r","i","c","a","n","e","s">> :> <<"C","A","R">>) @@
    (<<"C","H","I">> :> <<"C","H","I">>) @@
    (<<"C","h","i","c","a","g","o"," ","B","l","a","c","k","h","a","w","k","s">> :> <<"C","H","I">>) @@
    (<<"N","S","H">> :> <<"N","S","H">>) @@
    (<<"N","a","s","h","v","i","l","l","e"," ","P","r","e","d","a","t","o","r","s">> :> <<"N","S","H">>) @@
    (<<"S","T","L">> :> <<"S","T","L">>) @@
    (<<"S","t","."," ","L","o","u","i","s"," ","B","l","u","e","s">> :> <<"S","T","L">>) @@
    (<<"M","I","N">> :> <<"M","I","N">>) @@
    (<<"M","i","n","n","e","s","o","t","a"," ","W","i","l","d">> :> <<"M","I","N">>) @@
    (<<"W","P","G">> :> <<"W","P","G">>) @@
    (<<"W","i","n","n","i","p","e","g"," ","J","e","t","s">> :> <<"W","P","G">>) @@
    (<<"C","O","L">> :> <<"C","O","L">>) @@
    (<<"C","o","l","o","r","a","d","o"," ","A","v","a","l","a","n","c","h","e">> :> <<"C","O","L">>) @@
    (<<"D","A","L">> :> <<"D","A","L">>) @@
    (<<"D","a","l","l","a","s"," ","S","t","a","r","s">> :> <<"D","A","L">>) @@
    (<<"A","R","I">> :> <<"U","T","A">>) @@
    (<<"U","T","A">> :> <<"U","T","A">>) @@
    (<<"U","t","a","h"," ","H","o","c","k","e","y"," ","C","l","u","b">> :> <<"U","T","A">>) @@
    (<<"E","D","M">> :> <<"E","D","M">>) @@
    (<<"E","d","m","o","n","t","o","n"," ","O","i","l","e","r","s">> :> <<"E","D","M">>) @@
    (<<"C","G","Y">> :> <<"C","G","Y">>) @@
    (<<"C","a","l","g","a","r","y"," ","F","l","a","m","e","s">> :> <<"C","G","Y">>) @@
    (<<"A","N","A">> :> <<"A","N","A">>) @@
    (<<"A","n","a","h","e","i","m"," ","D","u","c","k","s">> :> <<"A","N","A">>) @@
    (<<"S","E","A">> :> <<"S","E","A">>) @@
    (<<"S","e","a","t","t","l","e"," ","K","r","a","k","e","n">> :> <<"S","E","A">>)

\* map[key] || dflt, for a map whose values are non-empty strings
MapOr(map, key, dflt) == IF key \in DOMAIN map THEN map[key] ELSE dflt

UNK == <<"U","N","K">>

\* a variant whose fallback keeps two characters
normalizeTeamCodeShort(input) ==
    IF ~StrTruthy(input) THEN UNK
    ELSE MapOr(TeamMap, input, toUpperCase(substring(input, 0, 2)))

\* map[input] || input.substring(0, 3).toUpperCase()
normalizeTeamCode(input) ==
    IF ~StrTruthy(input) THEN UNK
    ELSE MapOr(TeamMap, input, toUpperCase(substring(input, 0, 3)))

\* the variant of goalie-stats.ts: an empty input yields the empty string
gsNormalizeTeamCode(input) ==
    IF ~StrTruthy(input) THEN <<>>
    ELSE MapOr(TeamMap, input, toUpperCase(substring(input, 0, 3)))

(***************************************************************************)
(* The column hunter                                                       *)
(***************************************************************************)
\* row[key]: a parsed CSV row maps the columns it has to strings
Cell(row, key) == IF key \in DOMAIN row THEN row[key] ELSE UndefStr

\* parseFloat of a cell that is present and non-empty; NaN for one to skip
CellValue(c) == IF c = UndefStr \/ c = <<>> THEN NaN ELSE parseFloat(c)

RECURSIVE getFloatFrom(_, _, _)

\* val when it is a number, else the search goes on behind key i
ValueOrNext(val, row, keys, i) ==
    IF val # NaN THEN val ELSE getFloatFrom(row, keys, i + 1)

\* the loop of getFloat from key i on: the first cell that is present,
\* non-empty and parses to something other than NaN; 0 when there is none
getFloatFrom(row, keys, i) ==
    IF i > Len(keys) THEN Fin(0, 1)
    ELSE ValueOrNext(CellValue(Cell(row, keys[i])), row, keys, i)

\* getFloat(row, keys); reading a property of an undefined row throws
getFloat(row, keys) ==
    IF row = Undefined \/ row = Null THEN Throw
    ELSE getFloatFrom(row, keys, 1)

(***************************************************************************)
(* getSavantStats: the derived team report                                 *)
(***************************************************************************)
Sit5on5 == <<"5","o","n","5">>
SitAll == <<"a","l","l">>
AverageGoalieName == <<"A","v","e","r","a","g","e"," ","G","o","a","l","i","e">>

\* rows.find(row => normalizeTeamCode(row.team) === teamCode && row.situation === situation),
\* from position i on
RECURSIVE FindTeamRowFrom(_, _, _, _)
FindTeamRowFrom(rows, teamCode, situation, i) ==
    IF i > Len(rows) THEN Undefined
    ELSE IF /\ Cell(rows[i], "situation") = situation
            /\ normalizeTeamCode(Cell(rows[i], "team")) = teamCode
         THEN rows[i]
    ELSE FindTeamRowFrom(rows, teamCode, situation, i + 1)

FindTeamRow(rows, teamCode, situation) == FindTeamRowFrom(rows, teamCode, situation, 1)

\* goalies.filter(g => normalizeTeamCode(g.team) === teamCode), from position i on
RECURSIVE TeamGoaliesFrom(_, _, _)
TeamGoaliesFrom(goalies, teamCode, i) ==
    IF i > Len(goalies) THEN <<>>
    ELSE (IF normalizeTeamCode(Cell(goalies[i], "team")) = teamCode
          THEN <<goalies[i]>> ELSE <<>>)
         \o TeamGoaliesFrom(goalies, teamCode, i + 1)

TeamGoalies(goalies, teamCode) == TeamGoaliesFrom(goalies, teamCode, 1)

\* teamGoalies.find(g => g.name.toLowerCase().includes(target.toLowerCase().split(" ").pop())),
\* from position i on; a row without a name throws
RECURSIVE FindGoalieByName(_, _, _)
FindGoalieByName(teamGoalies, target, i) ==
    IF i > Len(teamGoalies) THEN Undefined
    ELSE IF Cell(teamGoalies[i], "name") = UndefStr THEN Throw
    ELSE IF includes(toLowerCase(Cell(teamGoalies[i], "name")), splitPop(toLowerCase(target)))
         THEN teamGoalies[i]
    ELSE FindGoalieByName(teamGoalies, target, i + 1)

GamesPlayed(g) == getFloat(g, <<"gamesPlayed", "games_played">>)

\* teamGoalies.sort((a, b) => gp(b) - gp(a))[0]: the sort is stable, so the
\* first row in table order among those with the most games played; best is
\* that row among the first i - 1
RECURSIVE TopFrom(_, _, _)
TopFrom(teamGoalies, i, best) ==
    IF i > Len(teamGoalies) THEN best
    ELSE TopFrom(teamGoalies, i + 1,
                 IF JSGt(GamesPlayed(teamGoalies[i]), GamesPlayed(best))
                 THEN teamGoalies[i] ELSE best)

\* a variant without the sort: the team's first goaltender in table order
TopInTableOrder(teamGoalies) == teamGoalies[1]

TopByGamesPlayed(teamGoalies) == TopFrom(teamGoalies, 2, teamGoalies[1])

\* a variant that consults the starter map whether or not a name was requested
UseStarterAlways(starterData, teamCode, requestedGoalie) ==
    /\ starterData # Null
    /\ teamCode \in DOMAIN starterData.v

\* !requestedGoalie && cachedStarterData && cachedStarterData[teamCode]
UseStarter(starterData, teamCode, requestedGoalie) ==
    /\ ~StrTruthy(requestedGoalie)
    /\ starterData # Null
    /\ teamCode \in DOMAIN starterData.v

\* lines 283-290: the name to look for
TargetGoalieName(starterData, teamCode, requestedGoalie) ==
    IF UseStarter(starterData, teamCode, requestedGoalie)
    THEN starterData.v[teamCode].name
    ELSE requestedGoalie

\* lines 298-303: the row found by name, else the team's busiest goaltender
PickGoalie(teamGoalies, named, status0) ==
    IF named = Throw THEN Throw
    ELSE IF named \in {Null, Undefined} /\ Len(teamGoalies) > 0
         THEN [row |-> TopByGamesPlayed(teamGoalies), status |-> "Projected #1"]
    ELSE [row |-> named, status |-> status0]

\* lines 292-297: the search by name among the team's goaltenders
SelectGoalie(teamGoalies, target, status0) ==
    PickGoalie(teamGoalies,
               IF StrTruthy(target) THEN FindGoalieByName(teamGoalies, target, 1) ELSE Null,
               status0)

\* a variant that never sets the status of a listed starter
GoalieSelectionUntagged(goalies, starterData, teamCode, requestedGoalie) ==
    SelectGoalie(TeamGoalies(goalies, teamCode),
                 TargetGoalieName(starterData, teamCode, requestedGoalie),
                 "Unconfirmed")

\* lines 283-303: the goaltender row and the starter status, or Throw
GoalieSelection(goalies, starterData, teamCode, requestedGoalie) ==
    SelectGoalie(TeamGoalies(goalies, teamCode),
                 TargetGoalieName(starterData, teamCode, requestedGoalie),
                 IF UseStarter(starterData, teamCode, requestedGoalie)
                 THEN "Confirmed" ELSE "Unconfirmed")

\* lines 307-313: the rates of a goaltender with gTime seconds of ice time
GoalieRates(goalieRow, gTime) ==
    [name |-> Cell(goalieRow, "name"),
     gsax |-> JSMul(JSDiv(getFloat(goalieRow, <<"goalsSavedAboveExpected", "xGoalsSaved">>),
                          gTime), Fin(3600, 1)),
     gaa |-> JSDiv(JSMul(getFloat(goalieRow, <<"goalsAgainst">>), Fin(3600, 1)), gTime),
     svPct |-> getFloat(goalieRow, <<"savePercentage">>)]

\* a variant whose default save percentage is 0
GoalieStatsZeroed(goalieRow) ==
    IF goalieRow \in {Null, Undefined}
    THEN [gsax |-> Fin(0, 1), gaa |-> Fin(0, 1), svPct |-> Fin(0, 1),
          name |-> AverageGoalieName]
    ELSE GoalieRates(goalieRow,
                     NumOr(getFloat(goalieRow, <<"iceTime", "timeOnIce">>), Fin(1, 1)))

\* lines 305-314
GoalieStats(goalieRow) ==
    IF goalieRow \in {Null, Undefined}
    THEN [gsax |-> Fin(0, 1), gaa |-> Fin(0, 1), svPct |-> Fin(9, 10),
          name |-> AverageGoalieName]
    ELSE GoalieRates(goalieRow,
                     NumOr(getFloat(goalieRow, <<"iceTime", "timeOnIce">>), Fin(1, 1)))

\* line 343: (for / (for + against)) * 100 || 50
hdcfPercentOf(teamRow) ==
    NumOr(JSMul(JSDiv(getFloat(teamRow, <<"highDangerGoalsFor">>),
                      JSAdd(getFloat(teamRow, <<"highDangerGoalsFor">>),
                            getFloat(teamRow, <<"highDangerGoalsAgainst">>))),
                Fin(100, 1)),
          Fin(50, 1))

\* line 332: (goals for / penalties drawn) * 100 || 0
ppPercentOf(teamAllRow) ==
    NumOr(JSMul(JSDiv(getFloat(teamAllRow, <<"ppGoalsFor", "fiveOnFourGoalsFor">>),
                      getFloat(teamAllRow, <<"penaltiesDrawn", "penaltiesDrawnPer60">>)),
                Fin(100, 1)),
          Fin(0, 1))

\* line 333: 100 - ((goals against / penalties taken) * 100 || 0)
pkPercentOf(teamAllRow) ==
    JSSub(Fin(100, 1),
          NumOr(JSMul(JSDiv(getFloat(teamAllRow, <<"ppGoalsAgainst", "fiveOnFourGoalsAgainst">>),
                            getFloat(teamAllRow, <<"penaltiesTaken", "penaltiesTakenPer60">>)),
                      Fin(100, 1)),
                Fin(0, 1)))

\* line 334: penalty minutes / (iceTimeAll / 3600) || 8.0
pimsPerGameOf(teamAllRow, iceTimeAll) ==
    NumOr(JSDiv(getFloat(teamAllRow, <<"penaltiesMinutes", "pim">>),
                JSDiv(iceTimeAll, Fin(3600, 1))),
          Fin(8, 1))

\* lines 320-347: the report for the two ice times and the goaltender's numbers
TeamReport(teamCode, teamRow, teamAllRow, iceTimeAll, iceTime5v5, goalieStats, status) ==
    [name |-> teamCode,
     gfPerGame |-> JSMul(JSDiv(getFloat(teamAllRow, <<"goalsFor">>), iceTimeAll), Fin(3600, 1)),
     xgfPercent |-> JSMul(getFloat(teamRow, <<"xGoalsPercentage">>), Fin(100, 1)),
     gaPerGame |-> JSMul(JSDiv(getFloat(teamAllRow, <<"goalsAgainst">>), iceTimeAll), Fin(3600, 1)),
     xgaPer60 |-> JSMul(JSDiv(getFloat(teamRow, <<"xGoalsAgainst">>), iceTime5v5), Fin(3600, 1)),
     ppPercent |-> ppPercentOf(teamAllRow),
     pkPercent |-> pkPercentOf(teamAllRow),
     pimsPerGame |-> pimsPerGameOf(teamAllRow, iceTimeAll),
     corsiPercent |-> JSMul(getFloat(teamRow, <<"corsiPercentage", "shotAttemptsPercentage">>), Fin(100, 1)),
     faceoffPercent |-> JSMul(getFloat(teamAllRow, <<"faceOffWinPercentage", "faceOffsWonPercentage">>), Fin(100, 1)),
     shootingPercent |-> JSMul(getFloat(teamRow, <<"shootingPercentage", "shootingPercentage5on5">>), Fin(100, 1)),
     hdcfPercent |-> hdcfPercentOf(teamRow),
     goalie |-> [name |-> goalieStats.name, gsax |-> goalieStats.gsax,
                 gaa |-> goalieStats.gaa, svPct |-> goalieStats.svPct,
                 status |-> status]]

\* a variant that rates the 5on5 totals over the all-situations ice time
StatsMappingAllIce(teamCode, teamRow, teamAllRow, sel) ==
    TeamReport(teamCode, teamRow, teamAllRow,
               NumOr(getFloat(teamAllRow, <<"iceTime">>), Fin(1, 1)),
               NumOr(getFloat(teamAllRow, <<"iceTime">>), Fin(1, 1)),
               GoalieStats(sel.row), sel.status)

\* lines 305-347: the report of a team with both rows and a selected goaltender
StatsMapping(teamCode, teamRow, teamAllRow, sel) ==
    TeamReport(teamCode, teamRow, teamAllRow,
               NumOr(getFloat(teamAllRow, <<"iceTime">>), Fin(1, 1)),
               NumOr(getFloat(teamRow, <<"iceTime">>), Fin(1, 1)),
               GoalieStats(sel.row), sel.status)

\* lines 280-347 for the two rows found and the goaltender selected
StatsOfRows(teamCode, teamRow, teamAllRow, sel) ==
    IF teamRow = Undefined THEN Null
    ELSE IF sel = Throw THEN Throw
    ELSE IF teamAllRow = Undefined THEN Throw
    ELSE StatsMapping(teamCode, teamRow, teamAllRow, sel)

\* getSavantStats(teamCode, requestedGoalie) over the cached tables: Null when
\* the team has no 5on5 row, Throw when the function throws, else the report
getSavantStats(teamStats, goalies, starterData, teamCode, requestedGoalie) ==
    StatsOfRows(teamCode,
                FindTeamRow(teamStats, teamCode, Sit5on5),
                FindTeamRow(teamStats, teamCode, SitAll),
                GoalieSelection(goalies, starterData, teamCode, requestedGoalie))

(***************************************************************************)
(* Upstream responses: what the three providers may answer                 *)
(***************************************************************************)
TOR == <<"T","O","R">>
BOS == <<"B","O","S">>
DAL == <<"D","A","L">>

\* an axios.get that rejects, and a body csv-parse refuses (parse throws)
NetErr == [k |-> "neterr"]
Malformed == [k |-> "malformed"]

\* teams.csv: TOR has both rows, BOS only a 5on5 row, DAL only an all row
TeamsCsv1 ==
    << [team |-> TOR, situation |-> Sit5on5, iceTime |-> <<"1","2","0","0">>,
        xGoalsAgainst |-> <<"1","0">>],
       [team |-> TOR, situation |-> SitAll, iceTime |-> <<"3","6","0","0">>,
        goalsFor |-> <<"3">>],
       [team |-> BOS, situation |-> Sit5on5, iceTime |-> <<"1","2","0","0">>],
       [team |-> DAL, situation |-> SitAll, iceTime |-> <<"3","6","0","0">>] >>

\* the next export: TOR and BOS have both rows, DAL has none
TeamsCsv2 ==
    << [team |-> TOR, situation |-> Sit5on5, iceTime |-> <<"2","4","0","0">>,
        xGoalsAgainst |-> <<"1","0">>],
       [team |-> TOR, situation |-> SitAll, iceTime |-> <<"7","2","0","0">>,
        goalsFor |-> <<"5">>],
       [team |-> BOS, situation |-> Sit5on5, iceTime |-> <<"2","4","0","0">>],
       [team |-> BOS, situation |-> SitAll, iceTime |-> <<"7","2","0","0">>] >>

Woll == <<"J"," ","W","o","l","l">>
Stolarz == <<"A"," ","S","t","o","l">>

GoaliesCsv1 ==
    << [team |-> TOR, name |-> Stolarz, gamesPlayed |-> <<"3">>,
        iceTime |-> <<"3","6","0","0">>, goalsAgainst |-> <<"2">>],
       [team |-> TOR, name |-> Woll, gamesPlayed |-> <<"1","0">>,
        iceTime |-> <<"7","2","0","0">>, goalsAgainst |-> <<"6">>] >>

GoaliesCsv2 ==
    << [team |-> TOR, name |-> Woll, gamesPlayed |-> <<"1","1">>,
        iceTime |-> <<"7","2","0","0">>, goalsAgainst |-> <<"6">>] >>

\* a startingGoalie object; one without firstName makes mapGoalie throw
StartingGoalie(first, last) == [firstName |-> first, lastName |-> last]
BadStartingGoalie == [lastName |-> <<"X">>]

\* nhlRes.data.gameWeek[0].games
NhlGames1 ==
    << [awayTeam |-> [abbrev |-> TOR, startingGoalie |-> StartingGoalie(<<"J">>, <<"W","o","l","l">>)],
        homeTeam |-> [abbrev |-> BOS, startingGoalie |-> Undefined]] >>
NhlGames2 ==
    << [awayTeam |-> [abbrev |-> DAL, startingGoalie |-> StartingGoalie(<<"J">>, <<"O","e","t">>)],
        homeTeam |-> [abbrev |-> TOR, startingGoalie |-> StartingGoalie(<<"A">>, <<"S","t","o","l">>)]] >>
\* the second side of the game has a starter object the code cannot read
NhlGamesBad ==
    << [awayTeam |-> [abbrev |-> BOS, startingGoalie |-> StartingGoalie(<<"J">>, <<"S","w","a","y">>)],
        homeTeam |-> [abbrev |-> TOR, startingGoalie |-> BadStartingGoalie]] >>

\* espnRes.data: the events with their two competitors and optional odds
EspnData1 ==
    [events |->
        << [id |-> 1,
            competitors |-> << [abbreviation |-> BOS, homeAway |-> "home", score |-> 0],
                               [abbreviation |-> TOR, homeAway |-> "away", score |-> 0] >>,
            odds |-> << [details |-> "TOR -1.5", overUnder |-> Fin(11, 2)] >>] >>]
EspnData2 ==
    [events |->
        << [id |-> 2,
            competitors |-> << [abbreviation |-> TOR, homeAway |-> "home", score |-> 1],
                               [abbreviation |-> DAL, homeAway |-> "away", score |-> 2] >>,
            odds |-> <<>>] >>]

(***************************************************************************)
(* State                                                                   *)
(***************************************************************************)
VARIABLES
    now,                \* the wall clock, Date.now(), in milliseconds
    \* module-level cache of the savant-api function
    cachedTeamStats, cachedGoalieStats, cachedEspnData, cachedStarterData,
    lastStatsFetch, lastOddsFetch, lastStarterFetch,
    \* module-level cache of the goalie-stats function
    gsCachedGoalieStats, gsCachedStarterData, gsLastFetchTime, gsLastStarterFetchTime,
    \* the last request served, its response, and the upstream calls it made
    req, resp, log,
    \* per source, the time and payload of the latest refresh that succeeded
    good

savantVars == <<cachedTeamStats, cachedGoalieStats, cachedEspnData, cachedStarterData,
                lastStatsFetch, lastOddsFetch, lastStarterFetch>>
gsVars == <<gsCachedGoalieStats, gsCachedStarterData, gsLastFetchTime, gsLastStarterFetchTime>>
vars == <<now, savantVars, gsVars, req, resp, log, good>>

STATS_CACHE == 1000 * 60 * 60
ODDS_CACHE == 1000 * 60 * 5
STARTER_CACHE == 1000 * 60 * 15

\* the clock value of the first request; like Date.now(), beyond every TTL
StartTime == 2 * STATS_CACHE

MaxShortTicks == 3
MaxLongTicks == 1

\* the instants at which requests arrive: every five minutes for the first
\* quarter of an hour, and again from one hour on
TimePoints ==
    {StartTime + a * ODDS_CACHE : a \in 0..MaxShortTicks}
    \cup {StartTime + STATS_CACHE + a * ODDS_CACHE : a \in 0..MaxLongTicks}

\* What each provider serves at time t.  The season export is republished once
\* an hour, the starters a quarter of an hour and the scoreboard ten minutes
\* after the first request; any call may also fail.
TeamsResponses(t) ==
    {NetErr, Malformed,
     Box(IF t < StartTime + STATS_CACHE THEN TeamsCsv1 ELSE TeamsCsv2)}
GoaliesResponses(t) ==
    {NetErr, Malformed,
     Box(IF t < StartTime + STATS_CACHE THEN GoaliesCsv1 ELSE GoaliesCsv2)}
NhlResponses(t) ==
    {NetErr, Box(NhlGamesBad),
     Box(IF t < StartTime + STARTER_CACHE THEN NhlGames1 ELSE NhlGames2)}
EspnResponses(t) ==
    {NetErr, Box(IF t < StartTime + 2 * ODDS_CACHE THEN EspnData1 ELSE EspnData2)}

NoLog == [calls |-> <<>>, stats |-> "none", starter |-> "none", odds |-> "none"]
NoGood == [stats |-> Null, starter |-> Null, odds |-> Null]

Init ==
    /\ now = StartTime
    /\ cachedTeamStats = Null /\ cachedGoalieStats = Null
    /\ cachedEspnData = Null /\ cachedStarterData = Null
    /\ lastStatsFetch = 0 /\ lastOddsFetch = 0 /\ lastStarterFetch = 0
    /\ gsCachedGoalieStats = Null /\ gsCachedStarterData = Null
    /\ gsLastFetchTime = 0 /\ gsLastStarterFetchTime = 0
    /\ req = Null /\ resp = Null /\ log = NoLog
    /\ good = NoGood

\* time passes between two requests
Tick ==
    /\ \E t \in TimePoints : t > now /\ now' = t
    /\ UNCHANGED <<savantVars, gsVars, req, resp, log, good>>


(***************************************************************************)
(* savant-api handler: the refresh of the three sources                    *)
(***************************************************************************)
\* !cached || (currentTime - last > ttl)
Due(cached, last, t, ttl) == cached = Null \/ t - last > ttl

\* lines 224-233: Promise.all of the two downloads, then parse and assign the
\* team table, parse and assign the goalie table, then the timestamp
StatsRefresh(team, goalie, last, t, upTeams, upGoalies) ==
    IF ~Due(team, last, t, STATS_CACHE)
    THEN [team |-> team, goalie |-> goalie, last |-> last, out |-> "none", calls |-> <<>>]
    ELSE IF upTeams = NetErr \/ upGoalies = NetErr \/ upTeams = Malformed
    THEN [team |-> team, goalie |-> goalie, last |-> last, out |-> "fail",
          calls |-> <<"teams", "goalies">>]
    ELSE IF upGoalies = Malformed
    THEN [team |-> upTeams, goalie |-> goalie, last |-> last, out |-> "fail",
          calls |-> <<"teams", "goalies">>]
    ELSE [team |-> upTeams, goalie |-> upGoalies, last |-> t, out |-> "ok",
          calls |-> <<"teams", "goalies">>]

\* mapGoalie(g): `${g.firstName.default} ${g.lastName.default}`, status "confirmed"
mapGoalie(g) ==
    IF "firstName" \notin DOMAIN g \/ "lastName" \notin DOMAIN g THEN Throw
    ELSE [name |-> g.firstName \o <<" ">> \o g.lastName, status |-> "confirmed"]

\* cachedStarterData[code] = entry, unless building the entry threw
PutStarter(map, code, entry) ==
    IF entry = Throw THEN Throw ELSE (code :> entry) @@ map

\* one side of one game, lines 243-244: the map after it, or Throw
AddStarter(map, side) ==
    IF side.startingGoalie = Undefined THEN map
    ELSE PutStarter(map, normalizeTeamCode(side.abbrev), mapGoalie(side.startingGoalie))

RECURSIVE BuildStarters(_, _, _)

\* the home side of game i, m1 being the map after its away side
BuildHome(games, i, m1, m2) ==
    IF m2 = Throw THEN [map |-> m1, threw |-> TRUE]
    ELSE BuildStarters(games, i + 1, m2)

\* the away side of game i, map being the map before it
BuildAway(games, i, map, m1) ==
    IF m1 = Throw THEN [map |-> map, threw |-> TRUE]
    ELSE BuildHome(games, i, m1, AddStarter(m1, games[i].homeTeam))

\* todayGames.forEach(...) from game i on: the map as far as it got, and
\* whether the loop threw
BuildStarters(games, i, map) ==
    IF i > Len(games) THEN [map |-> map, threw |-> FALSE]
    ELSE BuildAway(games, i, map, AddStarter(map, games[i].awayTeam))

\* lines 240-246: the map is emptied and filled entry by entry, and the
\* timestamp is set only when the loop got through
StoreStarters(last, t, b) ==
    [starter |-> Box(b.map), last |-> IF b.threw THEN last ELSE t,
     out |-> IF b.threw THEN "fail" ELSE "ok", calls |-> <<"nhl">>]

\* lines 236-248: the starter refresh, with its own try/catch
StarterRefresh(starter, last, t, upNhl) ==
    IF ~Due(starter, last, t, STARTER_CACHE)
    THEN [starter |-> starter, last |-> last, out |-> "none", calls |-> <<>>]
    ELSE IF upNhl = NetErr
    THEN [starter |-> starter, last |-> last, out |-> "fail", calls |-> <<"nhl">>]
    ELSE StoreStarters(last, t, BuildStarters(upNhl.v, 1, <<>>))

\* lines 252-258: the odds refresh, with its own try/catch
OddsRefresh(espn, last, t, upEspn) ==
    IF ~Due(espn, last, t, ODDS_CACHE)
    THEN [espn |-> espn, last |-> last, out |-> "none", calls |-> <<>>]
    ELSE IF upEspn = NetErr
    THEN [espn |-> espn, last |-> last, out |-> "fail", calls |-> <<"espn">>]
    ELSE [espn |-> upEspn, last |-> t, out |-> "ok", calls |-> <<"espn">>]

(***************************************************************************)
(* savant-api handler: the market line                                     *)
(***************************************************************************)
NotFoundOdds == [source |-> "Not Found", line |-> "OFF", total |-> "6.5"]

\* a variant that matches an event only in the requested orientation
PairMatchesOrdered(teamA, teamB, targetHome, targetAway) ==
    teamA = targetHome /\ teamB = targetAway

\* line 264: the two codes of an event against the two requested codes
PairMatches(teamA, teamB, targetHome, targetAway) ==
    \/ teamA = targetHome /\ teamB = targetAway
    \/ teamA = targetAway /\ teamB = targetHome

\* lines 260-265: the predicate of events.find
MatchesPair(evt, targetHome, targetAway) ==
    PairMatches(normalizeTeamCode(evt.competitors[1].abbreviation),
                normalizeTeamCode(evt.competitors[2].abbreviation),
                targetHome, targetAway)

\* cachedEspnData.events.find(...), from position i on
RECURSIVE FindGame(_, _, _, _)
FindGame(events, targetHome, targetAway, i) ==
    IF i > Len(events) THEN Undefined
    ELSE IF MatchesPair(events[i], targetHome, targetAway) THEN events[i]
    ELSE FindGame(events, targetHome, targetAway, i + 1)

\* lines 266-272: the odds of the game found, Null when it shows none
OddsOf(game) ==
    IF game = Undefined THEN Null
    ELSE IF Len(game.odds) = 0 THEN Null
    ELSE [source |-> "ESPN",
          line |-> IF game.odds[1].details = "" THEN "N/A" ELSE game.odds[1].details,
          total |-> NumOr(game.odds[1].overUnder, Fin(13, 2))]

\* lines 259-273: gameOdds, Null when there is none
GameOdds(espn, targetHome, targetAway) ==
    IF espn = Null THEN Null
    ELSE OddsOf(FindGame(espn.v.events, targetHome, targetAway, 1))

(***************************************************************************)
(* savant-api handler: the requests                                        *)
(***************************************************************************)
\* event.queryStringParameters
Request(home, away, homeGoalie, awayGoalie, action) ==
    [home |-> home, away |-> away, homeGoalie |-> homeGoalie,
     awayGoalie |-> awayGoalie, action |-> action]

Requests ==
    {Request(TOR, BOS, UndefStr, UndefStr, ""),
     Request(DAL, TOR, UndefStr, <<"s","t","o","l">>, ""),
     Request(UndefStr, BOS, UndefStr, UndefStr, ""),
     Request(TOR, UndefStr, UndefStr, UndefStr, ""),
     Request(UndefStr, UndefStr, UndefStr, UndefStr, "schedule")}

\* competitors.find(c => c.homeAway === flag) of an event with both sides
SideOf(evt, flag) ==
    IF evt.competitors[1].homeAway = flag THEN evt.competitors[1] ELSE evt.competitors[2]

\* lines 201-202: one side of a schedule entry
ScheduleTeam(c) == [code |-> normalizeTeamCode(c.abbreviation), score |-> c.score]

\* lines 192-204: one entry of the schedule
ScheduleGame(evt) ==
    [id |-> evt.id,
     homeTeam |-> ScheduleTeam(SideOf(evt, "home")),
     awayTeam |-> ScheduleTeam(SideOf(evt, "away"))]

\* lines 188-213: the response of the schedule mode
ScheduleResponse(upEspn) ==
    IF upEspn = NetErr
    THEN [statusCode |-> 500, body |-> [error |-> "Schedule Fetch Failed"]]
    ELSE [statusCode |-> 200,
          body |-> [games |-> [i \in 1..Len(upEspn.v.events) |->
                                  ScheduleGame(upEspn.v.events[i])],
                    count |-> Len(upEspn.v.events)]]

\* lines 186-214: the schedule is fetched afresh and no cache is read or written
ScheduleRequest ==
    \E r \in Requests :
        /\ r.action = "schedule"
        /\ \E upEspn \in EspnResponses(now) :
            /\ req' = r
            /\ log' = [NoLog EXCEPT !.calls = <<"espn">>]
            /\ resp' = ScheduleResponse(upEspn)
        /\ UNCHANGED <<now, savantVars, gsVars, good>>

\* a variant without the parameter check: the missing team is taken as UNK,
\* which has no row, and the request is answered with empty reports
RejectedRequestDefaulted ==
    \E r \in Requests :
        /\ r.action # "schedule"
        /\ ~StrTruthy(r.home) \/ ~StrTruthy(r.away)
        /\ req' = r
        /\ log' = NoLog
        /\ resp' = [statusCode |-> 200,
                    body |-> [home |-> Null, away |-> Null, odds |-> NotFoundOdds]]
        /\ UNCHANGED <<now, savantVars, gsVars, good>>

\* a variant that refreshes the scoreboard before it checks the parameters
RejectedRequestOddsFirst ==
    \E r \in Requests :
        /\ r.action # "schedule"
        /\ ~StrTruthy(r.home) \/ ~StrTruthy(r.away)
        /\ \E upEspn \in (IF Due(cachedEspnData, lastOddsFetch, now, ODDS_CACHE)
                          THEN EspnResponses(now) ELSE {NetErr}) :
            /\ cachedEspnData' = OddsRefresh(cachedEspnData, lastOddsFetch, now, upEspn).espn
            /\ lastOddsFetch' = OddsRefresh(cachedEspnData, lastOddsFetch, now, upEspn).last
            /\ log' = [NoLog EXCEPT
                          !.calls = OddsRefresh(cachedEspnData, lastOddsFetch, now, upEspn).calls]
        /\ req' = r
        /\ resp' = [statusCode |-> 400, body |-> [text |-> "Missing parameters"]]
        /\ UNCHANGED <<now, cachedTeamStats, cachedGoalieStats, cachedStarterData,
                       lastStatsFetch, lastStarterFetch, gsVars, good>>

\* line 217: a detail request without home or away
RejectedRequest ==
    \E r \in Requests :
        /\ r.action # "schedule"
        /\ ~StrTruthy(r.home) \/ ~StrTruthy(r.away)
        /\ req' = r
        /\ log' = NoLog
        /\ resp' = [statusCode |-> 400, body |-> [text |-> "Missing parameters"]]
        /\ UNCHANGED <<now, savantVars, gsVars, good>>

EngineError == [statusCode |-> 500, body |-> [error |-> "Engine Error"]]

\* JSON.stringify of a number: NaN and the infinities are written as null
JsonNumber(x) == IF IsFinite(x) THEN x ELSE Null

\* JSON.stringify of the goalie object of a report
JsonGoalie(g) ==
    [name |-> g.name, status |-> g.status, gsax |-> JsonNumber(g.gsax),
     gaa |-> JsonNumber(g.gaa), svPct |-> JsonNumber(g.svPct)]

\* JSON.stringify of what getSavantStats returned
JsonReport(report) ==
    IF report = Null THEN Null
    ELSE [f \in DOMAIN report |->
            CASE f = "name" -> report[f]
              [] f = "goalie" -> JsonGoalie(report[f])
              [] OTHER -> JsonNumber(report[f])]

\* a variant that passes gameOdds on as it is, null included
ReportResponseBareOdds(home, away, gameOdds) ==
    IF home = Throw \/ away = Throw THEN EngineError
    ELSE [statusCode |-> 200,
          body |-> [home |-> JsonReport(home), away |-> JsonReport(away),
                    odds |-> gameOdds]]

\* lines 350-358, or the catch of line 360 when getSavantStats throws
ReportResponse(home, away, gameOdds) ==
    IF home = Throw \/ away = Throw THEN EngineError
    ELSE [statusCode |-> 200,
          body |-> [home |-> JsonReport(home), away |-> JsonReport(away),
                    odds |-> IF gameOdds = Null THEN NotFoundOdds ELSE gameOdds]]

\* lines 219-220 and 259-358: the response computed from the four caches
DetailResponse(teamStats, goalies, starter, espn, r) ==
    ReportResponse(
        getSavantStats(teamStats.v, goalies.v, starter, normalizeTeamCode(r.home), r.homeGoalie),
        getSavantStats(teamStats.v, goalies.v, starter, normalizeTeamCode(r.away), r.awayGoalie),
        GameOdds(espn, normalizeTeamCode(r.home), normalizeTeamCode(r.away)))

\* the answers a provider can give to a call; one that is not called answers
\* nothing that matters
Answers(responses, called) == IF called THEN responses ELSE {NetErr}

\* the latest successful refresh of a source: this one if it succeeded
Latest(out, payload, before) == IF out = "ok" THEN payload ELSE before

\* rows in descending order of games played, rows with equal games in table
\* order: what Array.prototype.sort with the comparator of line 300 gives
RECURSIVE InsertByGames(_, _, _)
InsertByGames(sorted, g, i) ==
    IF i > Len(sorted) THEN Append(sorted, g)
    ELSE IF JSGt(GamesPlayed(g), GamesPlayed(sorted[i]))
         THEN SubSeq(sorted, 1, i - 1) \o <<g>> \o SubSeq(sorted, i, Len(sorted))
    ELSE InsertByGames(sorted, g, i + 1)

RECURSIVE SortByGames(_, _)
SortByGames(rows, n) ==
    IF n = 0 THEN <<>> ELSE InsertByGames(SortByGames(rows, n - 1), rows[n], 1)

\* a variant whose fallback sorts the cached goaltender table itself instead
\* of the filtered copy
ServeSortingCache(r, st, sr, od) ==
    /\ req' = r
    /\ cachedTeamStats' = st.team
    /\ cachedGoalieStats' = IF st.goalie = Null THEN Null
                            ELSE Box(SortByGames(st.goalie.v, Len(st.goalie.v)))
    /\ lastStatsFetch' = st.last
    /\ IF st.out = "fail"
       THEN /\ UNCHANGED <<cachedStarterData, lastStarterFetch, cachedEspnData, lastOddsFetch>>
            /\ log' = [NoLog EXCEPT !.calls = st.calls, !.stats = "fail"]
            /\ resp' = EngineError
            /\ good' = good
       ELSE /\ cachedStarterData' = sr.starter
            /\ lastStarterFetch' = sr.last
            /\ cachedEspnData' = od.espn
            /\ lastOddsFetch' = od.last
            /\ log' = [calls |-> st.calls \o sr.calls \o od.calls,
                       stats |-> st.out, starter |-> sr.out, odds |-> od.out]
            /\ resp' = DetailResponse(st.team, st.goalie, sr.starter, od.espn, r)
            /\ good' = [stats |-> Latest(st.out, [time |-> now, teams |-> st.team,
                                                  goalies |-> st.goalie], good.stats),
                        starter |-> Latest(sr.out, [time |-> now, map |-> sr.starter],
                                           good.starter),
                        odds |-> Latest(od.out, [time |-> now, data |-> od.espn], good.odds)]

\* lines 222-362 for the outcomes st, sr and od of the three refreshes; a
\* rejected statistics download leaves the try block, so nothing else runs
Serve(r, st, sr, od) ==
    /\ req' = r
    /\ cachedTeamStats' = st.team
    /\ cachedGoalieStats' = st.goalie
    /\ lastStatsFetch' = st.last
    /\ IF st.out = "fail"
       THEN /\ UNCHANGED <<cachedStarterData, lastStarterFetch, cachedEspnData, lastOddsFetch>>
            /\ log' = [NoLog EXCEPT !.calls = st.calls, !.stats = "fail"]
            /\ resp' = EngineError
            /\ good' = good
       ELSE /\ cachedStarterData' = sr.starter
            /\ lastStarterFetch' = sr.last
            /\ cachedEspnData' = od.espn
            /\ lastOddsFetch' = od.last
            /\ log' = [calls |-> st.calls \o sr.calls \o od.calls,
                       stats |-> st.out, starter |-> sr.out, odds |-> od.out]
            /\ resp' = DetailResponse(st.team, st.goalie, sr.starter, od.espn, r)
            /\ good' = [stats |-> Latest(st.out, [time |-> now, teams |-> st.team,
                                                  goalies |-> st.goalie], good.stats),
                        starter |-> Latest(sr.out, [time |-> now, map |-> sr.starter],
                                           good.starter),
                        odds |-> Latest(od.out, [time |-> now, data |-> od.espn], good.odds)]

\* lines 216-362: a detail request with both teams, served at time now against
\* the answers the three providers give to the calls it makes
DetailRequestOf(requests) ==
    \E r \in requests :
        /\ r.action # "schedule"
        /\ StrTruthy(r.home) /\ StrTruthy(r.away)
        /\ \E upTeams \in Answers(TeamsResponses(now),
                                  Due(cachedTeamStats, lastStatsFetch, now, STATS_CACHE)),
              upGoalies \in Answers(GoaliesResponses(now),
                                    Due(cachedTeamStats, lastStatsFetch, now, STATS_CACHE)),
              upNhl \in Answers(NhlResponses(now),
                                Due(cachedStarterData, lastStarterFetch, now, STARTER_CACHE)),
              upEspn \in Answers(EspnResponses(now),
                                 Due(cachedEspnData, lastOddsFetch, now, ODDS_CACHE)) :
            Serve(r,
                  StatsRefresh(cachedTeamStats, cachedGoalieStats, lastStatsFetch,
                               now, upTeams, upGoalies),
                  StarterRefresh(cachedStarterData, lastStarterFetch, now, upNhl),
                  OddsRefresh(cachedEspnData, lastOddsFetch, now, upEspn))
        /\ UNCHANGED <<now, gsVars>>

DetailRequest == DetailRequestOf(Requests)

(***************************************************************************)
(* goalie-stats handler                                                    *)
(***************************************************************************)
CACHE_DURATION == 1000 * 60 * 60
STARTER_CACHE_DURATION == 1000 * 60 * 10

\* lines 76-86: the goalie table refresh; a failure leaves the try block
GsStatsRefresh(goalie, last, t, upGoalies) ==
    IF ~Due(goalie, last, t, CACHE_DURATION)
    THEN [goalie |-> goalie, last |-> last, out |-> "none", calls |-> <<>>]
    ELSE IF upGoalies = NetErr \/ upGoalies = Malformed
    THEN [goalie |-> goalie, last |-> last, out |-> "fail", calls |-> <<"goalies">>]
    ELSE [goalie |-> upGoalies, last |-> t, out |-> "ok", calls |-> <<"goalies">>]

\* lines 100-113: one side of one game; the map after it, or Throw
GsAddStarter(map, side) ==
    IF side = Undefined \/ side.startingGoalie = Undefined THEN map
    ELSE PutStarter(map, gsNormalizeTeamCode(side.abbrev), mapGoalie(side.startingGoalie))

RECURSIVE GsBuildStarters(_, _, _)

GsBuildHome(games, i, m1, m2) ==
    IF m2 = Throw THEN [map |-> m1, threw |-> TRUE]
    ELSE GsBuildStarters(games, i + 1, m2)

GsBuildAway(games, i, map, m1) ==
    IF m1 = Throw THEN [map |-> map, threw |-> TRUE]
    ELSE GsBuildHome(games, i, m1, GsAddStarter(m1, games[i].homeTeam))

\* lines 99-114: todayGames.forEach(...) from game i on
GsBuildStarters(games, i, map) ==
    IF i > Len(games) THEN [map |-> map, threw |-> FALSE]
    ELSE GsBuildAway(games, i, map, GsAddStarter(map, games[i].awayTeam))

\* lines 98-119: the map built, or the empty map of the catch block
GsStoreStarters(last, t, b) ==
    IF b.threw
    THEN [starter |-> Box(<<>>), last |-> last, out |-> "fail", calls |-> <<"nhl">>]
    ELSE [starter |-> Box(b.map), last |-> t, out |-> "ok", calls |-> <<"nhl">>]

\* lines 90-120: the starter refresh; the catch block stores an empty map
GsStarterRefresh(starter, last, t, upNhl) ==
    IF ~Due(starter, last, t, STARTER_CACHE_DURATION)
    THEN [starter |-> starter, last |-> last, out |-> "none", calls |-> <<>>]
    ELSE IF upNhl = NetErr
    THEN [starter |-> Box(<<>>), last |-> last, out |-> "fail", calls |-> <<"nhl">>]
    ELSE GsStoreStarters(last, t, GsBuildStarters(upNhl.v, 1, <<>>))

\* parseFloat(x.toFixed(digits)): x rounded to that many decimals, halves away
\* from zero
ToFixed(x, digits) ==
    IF ~IsFinite(x) THEN x
    ELSE Fin((IF x.n < 0 THEN 0 - 1 ELSE 1)
                * ((2 * Abs(x.n) * Pow10(digits) + x.d) \div (2 * x.d)),
             Pow10(digits))

\* row[k1] || row[k2]
CellOr(row, k1, k2) == IF StrTruthy(Cell(row, k1)) THEN Cell(row, k1) ELSE Cell(row, k2)

\* line 144: the loose match of the listed starter and the row's name
StarterMatches(starterName, goalieName) ==
    \/ includes(starterName, goalieName)
    \/ includes(goalieName, splitPop(starterName))

\* lines 140-147: whether the row's goaltender is the listed starter of its team
GsStarterInfo(starter, teamCode, goalieName) ==
    IF starter # Null /\ teamCode \in DOMAIN starter.v
    THEN IF goalieName = UndefStr THEN Throw
         ELSE IF StarterMatches(starter.v[teamCode].name, goalieName)
              THEN [isStarter |-> TRUE, status |-> starter.v[teamCode].status]
              ELSE [isStarter |-> FALSE, status |-> "Unconfirmed"]
    ELSE [isStarter |-> FALSE, status |-> "Unconfirmed"]

\* lines 127-160: the report of a row with seconds of ice time
GsReportOf(row, seconds, totalGSAx, teamCode, goalieName, info) ==
    IF info = Throw THEN Throw
    ELSE [name |-> goalieName,
          team |-> teamCode,
          gamesPlayed |-> getFloat(row, <<"gamesPlayed", "GamesPlayed">>),
          stats |-> [gaa |-> ToFixed(JSDiv(JSMul(getFloat(row, <<"goalsAgainst", "GoalsAgainst">>),
                                                 Fin(3600, 1)), seconds), 2),
                     svPercent |-> getFloat(row, <<"savePercentage", "SavePercentage">>),
                     gsaxPer60 |-> ToFixed(JSDiv(JSMul(totalGSAx, Fin(3600, 1)), seconds), 3),
                     totalGSAx |-> ToFixed(totalGSAx, 2)],
          starter |-> info]

\* lines 135-147: the team, the name and the starter flag of a row
GsNamedReport(row, starter, seconds, teamCode, goalieName) ==
    GsReportOf(row, seconds,
               getFloat(row, <<"goalsSavedAboveExpected", "GoalsSavedAboveExpected",
                               "xGoalsSaved">>),
               teamCode, goalieName, GsStarterInfo(starter, teamCode, goalieName))

\* lines 124-125: a goaltender without ice time is dropped
GsTimedReport(row, starter, seconds) ==
    IF ~JSGt(seconds, Fin(0, 1)) THEN Null
    ELSE GsNamedReport(row, starter, seconds,
                       gsNormalizeTeamCode(CellOr(row, "team", "Team")),
                       CellOr(row, "name", "Name"))

\* lines 123-160: the report of one row; Null for a goaltender without ice time
GsGoalieReport(row, starter) ==
    GsTimedReport(row, starter,
                  getFloat(row, <<"iceTime", "Icetime", "timeOnIce", "icetime">>))

\* a variant of the comparator without the two starter lines
GsBeforeByGsax(a, b) == JSGt(a.stats.gsaxPer60, b.stats.gsaxPer60)

\* lines 176-180: the comparator is negative, a comes first
GsBefore(a, b) ==
    IF a.starter.isStarter /\ ~b.starter.isStarter THEN TRUE
    ELSE IF ~a.starter.isStarter /\ b.starter.isStarter THEN FALSE
    ELSE JSGt(a.stats.gsaxPer60, b.stats.gsaxPer60)

\* x put into the sorted sequence s behind every element it does not precede
RECURSIVE GsInsert(_, _)
GsInsert(s, x) ==
    IF s = <<>> THEN <<x>>
    ELSE IF GsBefore(x, Head(s)) THEN <<x>> \o s
    ELSE <<Head(s)>> \o GsInsert(Tail(s), x)

\* results.sort(comparator): Array.prototype.sort is stable
RECURSIVE GsSort(_)
GsSort(s) == IF s = <<>> THEN <<>> ELSE GsInsert(GsSort(SubSeq(s, 1, Len(s) - 1)), s[Len(s)])

\* lines 161-172: the three filters, from position i on
RECURSIVE GsFilter(_, _, _)
GsFilter(reports, r, i) ==
    IF i > Len(reports) THEN <<>>
    ELSE (IF /\ reports[i] # Null
             /\ StrTruthy(r.team) => reports[i].team = gsNormalizeTeamCode(r.team)
             /\ StrTruthy(r.name) =>
                    includes(toLowerCase(reports[i].name), toLowerCase(r.name))
          THEN <<reports[i]>> ELSE <<>>)
         \o GsFilter(reports, r, i + 1)

\* JSON.stringify of one entry of the list
GsJsonReport(g) ==
    [name |-> g.name, team |-> g.team, gamesPlayed |-> JsonNumber(g.gamesPlayed),
     stats |-> [gaa |-> JsonNumber(g.stats.gaa),
                svPercent |-> JsonNumber(g.stats.svPercent),
                gsaxPer60 |-> JsonNumber(g.stats.gsaxPer60),
                totalGSAx |-> JsonNumber(g.stats.totalGSAx)],
     starter |-> g.starter]

\* lines 182-193: the list as it is written into the body
GsBody(results) ==
    [count |-> Len(results), goalies |-> [i \in 1..Len(results) |-> GsJsonReport(results[i])]]

\* lines 161-193, or the catch of line 195 when building a report threw
GsRespond(reports, r) ==
    IF \E i \in 1..Len(reports) : reports[i] = Throw
    THEN [statusCode |-> 500, body |-> [error |-> "Failed to fetch goalie stats"]]
    ELSE [statusCode |-> 200, body |-> GsBody(GsSort(GsFilter(reports, r, 1)))]

\* lines 123-193: the response for the cached table and starters
GsResponse(goalies, starter, r) ==
    GsRespond([i \in 1..Len(goalies.v) |-> GsGoalieReport(goalies.v[i], starter)], r)

\* event.queryStringParameters of goalie-stats
GsRequests ==
    {[team |-> UndefStr, name |-> UndefStr],
     [team |-> TOR, name |-> UndefStr],
     [team |-> UndefStr, name |-> <<"w","o","l","l">>]}

\* lines 74-200 for the outcomes st and sr of the two refreshes
GsServe(r, st, sr) ==
    /\ req' = r
    /\ gsCachedGoalieStats' = st.goalie
    /\ gsLastFetchTime' = st.last
    /\ IF st.out = "fail"
       THEN /\ UNCHANGED <<gsCachedStarterData, gsLastStarterFetchTime>>
            /\ log' = [NoLog EXCEPT !.calls = st.calls, !.stats = "fail"]
            /\ resp' = [statusCode |-> 500,
                        body |-> [error |-> "Failed to fetch goalie stats"]]
            /\ good' = good
       ELSE /\ gsCachedStarterData' = sr.starter
            /\ gsLastStarterFetchTime' = sr.last
            /\ log' = [calls |-> st.calls \o sr.calls, stats |-> st.out,
                       starter |-> sr.out, odds |-> "none"]
            /\ resp' = GsResponse(st.goalie, sr.starter, r)
            /\ good' = [stats |-> Latest(st.out, [time |-> now, goalies |-> st.goalie],
                                         good.stats),
                        starter |-> Latest(sr.out, [time |-> now, map |-> sr.starter],
                                           good.starter),
                        odds |-> good.odds]

\* lines 70-201: one request to goalie-stats
GoalieStatsRequest ==
    /\ \E r \in GsRequests,
          upGoalies \in Answers(GoaliesResponses(now),
                                Due(gsCachedGoalieStats, gsLastFetchTime, now, CACHE_DURATION)),
          upNhl \in Answers(NhlResponses(now),
                            Due(gsCachedStarterData, gsLastStarterFetchTime, now,
                                STARTER_CACHE_DURATION)) :
            GsServe(r,
                    GsStatsRefresh(gsCachedGoalieStats, gsLastFetchTime, now, upGoalies),
                    GsStarterRefresh(gsCachedStarterData, gsLastStarterFetchTime, now, upNhl))
    /\ UNCHANGED <<now, savantVars>>

(***************************************************************************)
(* Specifications                                                          *)
(***************************************************************************)
Next == Tick \/ ScheduleRequest \/ RejectedRequest \/ DetailRequest

Spec == Init /\ [][Next]_vars

\* the goalie-stats function runs in a process of its own
NextGoalie == Tick \/ GoalieStatsRequest

SpecGoalie == Init /\ [][NextGoalie]_vars

(***************************************************************************)
(* The stat derivation over bounded raw rows                               *)
(***************************************************************************)
\* a parsed row without the columns the export does not carry
DropAbsent(f) == [c \in {c \in DOMAIN f : f[c] # UndefStr} |-> f[c]]

\* what a count or ice-time cell may hold: no column, zero, or the given value
RawCells(value) == {UndefStr, <<"0">>, value}

\* the 5on5 row of a team for its ice time and high-danger goals
Raw5on5Row(team, iceTime, hdFor, hdAgainst) ==
    DropAbsent([team |-> team, situation |-> Sit5on5, iceTime |-> iceTime,
                xGoalsAgainst |-> <<"1","0">>,
                highDangerGoalsFor |-> hdFor, highDangerGoalsAgainst |-> hdAgainst])

\* the all-situations row of a team for its ice time and special-teams counts
RawAllRow(team, iceTime, ppFor, drawn, ppAgainst, taken, pim) ==
    DropAbsent([team |-> team, situation |-> SitAll, iceTime |-> iceTime,
                ppGoalsFor |-> ppFor, penaltiesDrawn |-> drawn,
                ppGoalsAgainst |-> ppAgainst, penaltiesTaken |-> taken,
                penaltiesMinutes |-> pim])

\* teams.csv exports with one team, over the raw values of its two rows
RawTables ==
    { << Raw5on5Row(TOR, i5, hf, ha), RawAllRow(TOR, ia, pf, pd, pa, pt, pm) >> :
        i5 \in RawCells(<<"1","2","0","0">>),
        hf \in RawCells(<<"3">>),
        ha \in {<<"0">>, <<"5">>},
        ia \in RawCells(<<"3","6","0","0">>),
        pf \in {<<"0">>, <<"2">>},
        pd \in RawCells(<<"8">>),
        pa \in {<<"0">>, <<"1">>},
        pt \in RawCells(<<"4">>),
        pm \in {<<"0">>, <<"1","0">>} }

\* the three sources were refreshed at StartTime, the statistics with a table
\* of RawTables, and nothing is due again before the clock moves
InitStats ==
    /\ now = StartTime
    /\ cachedTeamStats \in {Box(t) : t \in RawTables}
    /\ cachedGoalieStats = Box(GoaliesCsv1)
    /\ cachedStarterData = StarterRefresh(Null, 0, StartTime, Box(NhlGames1)).starter
    /\ cachedEspnData = Box(EspnData1)
    /\ lastStatsFetch = StartTime /\ lastOddsFetch = StartTime /\ lastStarterFetch = StartTime
    /\ gsCachedGoalieStats = Null /\ gsCachedStarterData = Null
    /\ gsLastFetchTime = 0 /\ gsLastStarterFetchTime = 0
    /\ req = Null /\ resp = Null /\ log = NoLog
    /\ good = [stats |-> [time |-> now, teams |-> cachedTeamStats,
                          goalies |-> cachedGoalieStats],
               starter |-> [time |-> now, map |-> cachedStarterData],
               odds |-> [time |-> now, data |-> cachedEspnData]]

NextStats == DetailRequest

SpecStats == InitStats /\ [][NextStats]_vars

(***************************************************************************)
(* The report and the market line over bounded caches                      *)
(***************************************************************************)
\* the spelling of Tampa Bay in the season export
TBay == <<"T",".","B">>

\* teams.csv exports in which T.B, TOR and DAL have both rows, over the ice
\* time and the expected goals against of the 5on5 row of T.B
ReportTables ==
    { << [team |-> TBay, situation |-> Sit5on5, iceTime |-> cells[1],
          xGoalsAgainst |-> cells[2]],
         RawAllRow(TBay, <<"3","6","0","0">>, <<"2">>, <<"8">>, <<"1">>, <<"4">>, <<"1","0">>),
         Raw5on5Row(TOR, <<"1","2","0","0">>, <<"3">>, <<"5">>),
         RawAllRow(TOR, <<"3","6","0","0">>, <<"2">>, <<"8">>, <<"1">>, <<"4">>, <<"1","0">>),
         Raw5on5Row(DAL, <<"1","2","0","0">>, <<"3">>, <<"5">>),
         RawAllRow(DAL, <<"3","6","0","0">>, <<"2">>, <<"8">>, <<"1">>, <<"4">>, <<"1","0">>) >> :
        cells \in {<< <<"1","2","0","0">>, <<"1","0">> >>,
                   << <<"6","0","0">>, <<"7",".","5">> >>} }

Oettinger == <<"J"," ","O","e","t","t">>
DeSmith == <<"C"," ","D","e","S","m">>

\* the goaltenders of DAL: two with 10 and 3 games played
DalGoalies ==
    << [team |-> DAL, name |-> Oettinger, gamesPlayed |-> <<"1","0">>,
        iceTime |-> <<"7","2","0","0">>, goalsAgainst |-> <<"5">>],
       [team |-> DAL, name |-> DeSmith, gamesPlayed |-> <<"3">>,
        iceTime |-> <<"3","6","0","0">>, goalsAgainst |-> <<"4">>] >>

\* rows.reverse(): the same rows in the opposite order
Reversed(rows) == SubSeq([i \in 1..Len(rows) |-> rows[Len(rows) + 1 - i]], 1, Len(rows))

\* goalies.csv exports: TOR and DAL in either row order, and an export
\* without a goaltender; T.B never has one
Rosters ==
    {GoaliesCsv1 \o DalGoalies, Reversed(GoaliesCsv1 \o DalGoalies), <<>>}

\* a game day whose listed starters are on no roster
NhlGames3 ==
    << [awayTeam |-> [abbrev |-> <<"T","B","L">>,
                      startingGoalie |-> StartingGoalie(<<"A">>, <<"V","a","s","i">>)],
        homeTeam |-> [abbrev |-> TOR,
                      startingGoalie |-> StartingGoalie(<<"M">>, <<"M","u","r","r">>)]] >>

\* the game days the starter map was built from, one of them without a game
GameDays == {NhlGames1, NhlGames2, NhlGames3, <<>>}

\* a scoreboard with two games: DAL listed before TOR, and TB before TOR
EspnData3 ==
    [events |->
        << [id |-> 3,
            competitors |-> << [abbreviation |-> DAL, homeAway |-> "away", score |-> 0],
                               [abbreviation |-> TOR, homeAway |-> "home", score |-> 0] >>,
            odds |-> << [details |-> "DAL -1.5", overUnder |-> Fin(6, 1)] >>],
           [id |-> 4,
            competitors |-> << [abbreviation |-> <<"T","B">>, homeAway |-> "home", score |-> 0],
                               [abbreviation |-> TOR, homeAway |-> "away", score |-> 0] >>,
            odds |-> << [details |-> "", overUnder |-> Fin(0, 1)] >>] >>]

\* the scoreboard snapshots held: none yet, one whose game shows no odds, and
\* one with odds
Scoreboards == {Null, Box(EspnData2), Box(EspnData3)}

\* the goaltender names a caller sends: none, a surname in lower case, a full
\* name in another case, and a name on no roster
GoalieNames ==
    {UndefStr, <<"s","t","o","l">>, <<"J","o","e"," ","W","O","L","L">>, <<"n","o","n","e">>}

\* detail requests: each pair of the three teams in both orders without a
\* goaltender name, and TOR and DAL at home with each name
ReportRequests ==
    {Request(pair[1], pair[2], UndefStr, UndefStr, "") :
        pair \in {<<TOR, DAL>>, <<DAL, TOR>>, <<TBay, TOR>>, <<TOR, <<"T","B","L">> >>,
                  <<TBay, DAL>>, <<DAL, <<"T","B","L">> >>}}
    \cup {Request(TOR, DAL, homeGoalie, UndefStr, "") : homeGoalie \in GoalieNames}
    \cup {Request(DAL, TOR, homeGoalie, UndefStr, "") : homeGoalie \in GoalieNames}

\* the statistics and the starters were refreshed at StartTime from one of the
\* exports and game days, and the scoreboard is one of Scoreboards
InitReport ==
    /\ now = StartTime
    /\ cachedTeamStats \in {Box(t) : t \in ReportTables}
    /\ cachedGoalieStats \in {Box(g) : g \in Rosters}
    /\ cachedStarterData \in {StarterRefresh(Null, 0, StartTime, Box(d)).starter : d \in GameDays}
    /\ cachedEspnData \in Scoreboards
    /\ lastStatsFetch = StartTime /\ lastOddsFetch = StartTime /\ lastStarterFetch = StartTime
    /\ gsCachedGoalieStats = Null /\ gsCachedStarterData = Null
    /\ gsLastFetchTime = 0 /\ gsLastStarterFetchTime = 0
    /\ req = Null /\ resp = Null /\ log = NoLog
    /\ good = [stats |-> [time |-> now, teams |-> cachedTeamStats,
                          goalies |-> cachedGoalieStats],
               starter |-> [time |-> now, map |-> cachedStarterData],
               odds |-> IF cachedEspnData = Null THEN Null
                        ELSE [time |-> now, data |-> cachedEspnData]]

NextReport == DetailRequestOf(ReportRequests)

SpecReport == InitReport /\ [][NextReport]_vars

(***************************************************************************)
(* The team normalizers applied to the spellings of their tables           *)
(***************************************************************************)
\* the table of normalizeTeam in the odds function
OddsTeamMap ==
    (<<"S","J">> :> <<"S","J","S">>) @@
    (<<"T","B">> :> <<"T","B","L">>) @@
    (<<"L","A">> :> <<"L","A","K">>) @@
    (<<"N","J">> :> <<"N","J","D">>) @@
    (<<"U","T","A">> :> <<"A","R","I">>) @@
    (<<"A","R","I">> :> <<"A","R","I">>)

\* map[code] || code
normalizeTeam(code) == MapOr(OddsTeamMap, code, code)

\* the spellings the two tables list
Spellings == DOMAIN TeamMap \cup DOMAIN OddsTeamMap

\* inputs that neither table lists: a lower-case code, a city, a two-letter
\* and a one-letter abbreviation
UnlistedInputs ==
    {<<"t","o","r">>, <<"U","t","a","h">>, <<"N","Y">>, <<"x">>}

\* the module is loaded and a spelling is about to be normalized
InitNormalize ==
    /\ now = StartTime
    /\ cachedTeamStats = Null /\ cachedGoalieStats = Null
    /\ cachedEspnData = Null /\ cachedStarterData = Null
    /\ lastStatsFetch = 0 /\ lastOddsFetch = 0 /\ lastStarterFetch = 0
    /\ gsCachedGoalieStats = Null /\ gsCachedStarterData = Null
    /\ gsLastFetchTime = 0 /\ gsLastStarterFetchTime = 0
    /\ req \in {[input |-> s] : s \in Spellings \cup UnlistedInputs}
    /\ resp = Null /\ log = NoLog /\ good = NoGood

\* a normalizer returned code for the input
Returned(by, code) ==
    /\ resp' = [by |-> by, input |-> req.input, code |-> code]
    /\ UNCHANGED <<now, savantVars, gsVars, req, log, good>>

NormalizeTeamCodeCall == Returned("normalizeTeamCode", normalizeTeamCode(req.input))

GsNormalizeTeamCodeCall == Returned("goalie-stats normalizeTeamCode", gsNormalizeTeamCode(req.input))

NormalizeTeamCall == Returned("normalizeTeam", normalizeTeam(req.input))

\* the code a normalizer returned is the next input
NormalizeAgain ==
    /\ resp # Null
    /\ req' = [input |-> resp.code]
    /\ resp' = Null
    /\ UNCHANGED <<now, savantVars, gsVars, log, good>>

NextNormalize ==
    NormalizeTeamCodeCall \/ GsNormalizeTeamCodeCall \/ NormalizeTeamCall \/ NormalizeAgain

SpecNormalize == InitNormalize /\ [][NextNormalize]_vars

(***************************************************************************)
(* getFloat applied to bounded rows and key lists                          *)
(***************************************************************************)
\* what a cell of a parsed row may hold: no column, nothing, a word, numbers
\* with and without a sign, a fraction or a trailing unit, and Infinity
CellTexts ==
    {UndefStr, <<>>, <<"n","/","a">>, <<"0">>, <<"1","2">>, <<"-","2">>,
     <<"3",".","5">>, <<"7","s">>, <<"I","n","f","i","n","i","t","y">>}

\* rows with the two spellings of the ice-time column
CellRows ==
    {DropAbsent([iceTime |-> a, timeOnIce |-> b]) : a \in CellTexts, b \in CellTexts}

\* the keys argument: the two columns in either order, one of them, a column
\* no row has, and no key
KeyLists ==
    {<<"iceTime", "timeOnIce">>, <<"timeOnIce", "iceTime">>, <<"timeOnIce">>,
     <<"toi", "iceTime">>, <<>>}

\* a row and a key list are about to be passed to getFloat
InitGetFloat ==
    /\ now = StartTime
    /\ cachedTeamStats = Null /\ cachedGoalieStats = Null
    /\ cachedEspnData = Null /\ cachedStarterData = Null
    /\ lastStatsFetch = 0 /\ lastOddsFetch = 0 /\ lastStarterFetch = 0
    /\ gsCachedGoalieStats = Null /\ gsCachedStarterData = Null
    /\ gsLastFetchTime = 0 /\ gsLastStarterFetchTime = 0
    /\ req \in {[row |-> r, keys |-> k] : r \in CellRows, k \in KeyLists}
    /\ resp = Null /\ log = NoLog /\ good = NoGood

\* getFloat(row, keys) returned
GetFloatCall ==
    /\ resp = Null
    /\ resp' = [value |-> getFloat(req.row, req.keys)]
    /\ UNCHANGED <<now, savantVars, gsVars, req, log, good>>

SpecGetFloat == InitGetFloat /\ [][GetFloatCall]_vars

(***************************************************************************)
(* The goaltender list over bounded caches and filters                     *)
(***************************************************************************)
Murray == <<"M"," ","M","u","r","r">>
Swayman == <<"J"," ","S","w","a","y">>

\* a goalies.csv export with the goals saved above expected: per 60 minutes
\* Stolarz 2, Woll 3, Oettinger -0.5, DeSmith 5, Murray (team spelled tor) 2;
\* Swayman has no ice time
GoalieTable ==
    << [team |-> TOR, name |-> Stolarz, gamesPlayed |-> <<"3">>,
        iceTime |-> <<"3","6","0","0">>, goalsAgainst |-> <<"2">>,
        goalsSavedAboveExpected |-> <<"2">>],
       [team |-> TOR, name |-> Woll, gamesPlayed |-> <<"1","0">>,
        iceTime |-> <<"7","2","0","0">>, goalsAgainst |-> <<"6">>,
        goalsSavedAboveExpected |-> <<"6">>],
       [team |-> DAL, name |-> Oettinger, gamesPlayed |-> <<"1","0">>,
        iceTime |-> <<"7","2","0","0">>, goalsAgainst |-> <<"5">>,
        goalsSavedAboveExpected |-> <<"-","1">>],
       [team |-> BOS, name |-> Swayman, gamesPlayed |-> <<"0">>,
        iceTime |-> <<"0">>, goalsAgainst |-> <<"0">>,
        goalsSavedAboveExpected |-> <<"9">>],
       [team |-> DAL, name |-> DeSmith, gamesPlayed |-> <<"3">>,
        iceTime |-> <<"3","6","0","0">>, goalsAgainst |-> <<"4">>,
        goalsSavedAboveExpected |-> <<"5">>],
       [team |-> <<"t","o","r">>, name |-> Murray, gamesPlayed |-> <<"1">>,
        iceTime |-> <<"1","8","0","0">>, goalsAgainst |-> <<"1">>,
        goalsSavedAboveExpected |-> <<"1">>] >>

\* the exports held by the goalie-stats cache: the table in either row order,
\* and an export without a row
GoalieTables == {GoalieTable, Reversed(GoalieTable), <<>>}

\* event.queryStringParameters of goalie-stats: team and name, each optional
GsListRequests ==
    {[team |-> t, name |-> n] :
        t \in {UndefStr, <<>>, <<"t","o","r">>, <<"d","a","l">>, BOS},
        n \in {UndefStr, <<"E">>, <<"s","T","o">>}}

\* both caches of goalie-stats are fresh
InitGoalieList ==
    /\ now = StartTime
    /\ cachedTeamStats = Null /\ cachedGoalieStats = Null
    /\ cachedEspnData = Null /\ cachedStarterData = Null
    /\ lastStatsFetch = 0 /\ lastOddsFetch = 0 /\ lastStarterFetch = 0
    /\ gsCachedGoalieStats \in {Box(g) : g \in GoalieTables}
    /\ gsCachedStarterData \in
           {GsStarterRefresh(Null, 0, StartTime, Box(d)).starter : d \in GameDays}
    /\ gsLastFetchTime = StartTime /\ gsLastStarterFetchTime = StartTime
    /\ req = Null /\ resp = Null /\ log = NoLog /\ good = NoGood

\* lines 70-201: one request to goalie-stats with filters
GoalieListRequest ==
    /\ \E r \in GsListRequests,
          upGoalies \in Answers(GoaliesResponses(now),
                                Due(gsCachedGoalieStats, gsLastFetchTime, now, CACHE_DURATION)),
          upNhl \in Answers(NhlResponses(now),
                            Due(gsCachedStarterData, gsLastStarterFetchTime, now,
                                STARTER_CACHE_DURATION)) :
            GsServe(r,
                    GsStatsRefresh(gsCachedGoalieStats, gsLastFetchTime, now, upGoalies),
                    GsStarterRefresh(gsCachedStarterData, gsLastStarterFetchTime, now, upNhl))
    /\ UNCHANGED <<now, savantVars>>

SpecGoalieList == InitGoalieList /\ [][GoalieListRequest]_vars

(***************************************************************************)
(* Two overlapping detail requests.  The handler is an async function: it  *)
(* runs from one await to the next without interruption, and another       *)
(* invocation may run while it waits for a download.  In this              *)
(* specification req and resp hold one entry per invocation.               *)
(***************************************************************************)
Procs == {"a", "b"}

\* each invocation slot serves at most MaxArrivals requests, which arrive at
\* StartTime or up to MaxOverlapTicks times five minutes later
MaxArrivals == 2
MaxOverlapTicks == 2
OverlapTimes == {StartTime + a * ODDS_CACHE : a \in 0..MaxOverlapTicks}

\* time passes while downloads are in flight
OverlapTick ==
    /\ \E t \in OverlapTimes : t > now /\ now' = t
    /\ UNCHANGED <<savantVars, gsVars, req, resp, log, good>>

\* event.queryStringParameters of the overlapping requests
OverlapRequests == {Request(TOR, BOS, UndefStr, UndefStr, "")}

\* lines 225-232 after the await: the two parses and the three assignments
StatsAfterAwait(team, goalie, last, t, upTeams, upGoalies) ==
    [StatsRefresh(Null, goalie, last, t, upTeams, upGoalies)
        EXCEPT !.team = IF @ = Null THEN team ELSE @]

\* lines 238-246 after the await
StarterAfterAwait(starter, last, t, upNhl) ==
    [StarterRefresh(Null, last, t, upNhl)
        EXCEPT !.starter = IF @ = Null THEN starter ELSE @]

\* lines 254-256 after the await
OddsAfterAwait(espn, last, t, upEspn) ==
    [OddsRefresh(Null, last, t, upEspn) EXCEPT !.espn = IF @ = Null THEN espn ELSE @]

\* the await the handler reaches next, for its currentTime t and the caches
\* as they are now: the conditions of lines 224, 236 and 252 in this order,
\* "done" when it runs to its return
StageAfter(from, t) ==
    IF from = "begin" /\ Due(cachedTeamStats, lastStatsFetch, t, STATS_CACHE)
    THEN "stats"
    ELSE IF from \in {"begin", "stats"}
               /\ Due(cachedStarterData, lastStarterFetch, t, STARTER_CACHE)
    THEN "starter"
    ELSE IF from # "odds" /\ Due(cachedEspnData, lastOddsFetch, t, ODDS_CACHE)
    THEN "odds"
    ELSE "done"

\* lines 259-358: the invocation that runs to its return answers from the
\* caches given
Answer(responses, p, stage, teamStats, goalies, starter, espn) ==
    IF stage = "done"
    THEN [responses EXCEPT ![p] = DetailResponse(teamStats, goalies, starter, espn, req[p].r)]
    ELSE responses

\* no invocation has run yet
InitOverlap ==
    /\ now = StartTime
    /\ cachedTeamStats = Null /\ cachedGoalieStats = Null
    /\ cachedEspnData = Null /\ cachedStarterData = Null
    /\ lastStatsFetch = 0 /\ lastOddsFetch = 0 /\ lastStarterFetch = 0
    /\ gsCachedGoalieStats = Null /\ gsCachedStarterData = Null
    /\ gsLastFetchTime = 0 /\ gsLastStarterFetchTime = 0
    /\ req = [p \in Procs |-> [pc |-> "idle", currentTime |-> 0, served |-> 0,
                               r |-> Request(TOR, BOS, UndefStr, UndefStr, "")]]
    /\ resp = [p \in Procs |-> Null]
    /\ log = NoLog /\ good = NoGood

\* lines 174-220 and on to the first await: a request arrives for the
\* invocation p, which reads the clock once
Arrive(p) ==
    /\ req[p].pc \in {"idle", "done"}
    /\ req[p].served < MaxArrivals
    /\ \E r \in OverlapRequests :
        /\ req' = [req EXCEPT ![p] = [pc |-> StageAfter("begin", now), currentTime |-> now,
                                      served |-> req[p].served + 1, r |-> r]]
        /\ resp' = IF StageAfter("begin", now) = "done"
                   THEN [resp EXCEPT ![p] = DetailResponse(cachedTeamStats, cachedGoalieStats,
                                                           cachedStarterData, cachedEspnData, r)]
                   ELSE [resp EXCEPT ![p] = Null]
    /\ UNCHANGED <<now, savantVars, gsVars, log, good>>

\* lines 229-232 and on: the outcome st of the statistics downloads of p
StatsInstall(p, st) ==
    /\ cachedTeamStats' = st.team
    /\ cachedGoalieStats' = st.goalie
    /\ lastStatsFetch' = st.last
    /\ good' = [good EXCEPT !.stats = Latest(st.out, [time |-> st.last, teams |-> st.team,
                                                      goalies |-> st.goalie], @)]
    /\ req' = [req EXCEPT ![p].pc = IF st.out = "fail" THEN "done"
                                    ELSE StageAfter("stats", req[p].currentTime)]
    /\ resp' = IF st.out = "fail" THEN [resp EXCEPT ![p] = EngineError]
               ELSE Answer(resp, p, StageAfter("stats", req[p].currentTime),
                           st.team, st.goalie, cachedStarterData, cachedEspnData)
    /\ UNCHANGED <<now, cachedStarterData, lastStarterFetch, cachedEspnData, lastOddsFetch,
                   gsVars, log>>

\* the await of line 225 returns to the invocation p
StatsArrive(p) ==
    /\ req[p].pc = "stats"
    /\ \E upTeams \in TeamsResponses(now), upGoalies \in GoaliesResponses(now) :
          StatsInstall(p, StatsAfterAwait(cachedTeamStats, cachedGoalieStats, lastStatsFetch,
                                          req[p].currentTime, upTeams, upGoalies))

\* lines 239-247 and on: the outcome sr of the starter download of p
StarterInstall(p, sr) ==
    /\ cachedStarterData' = sr.starter
    /\ lastStarterFetch' = sr.last
    /\ good' = [good EXCEPT !.starter = Latest(sr.out, [time |-> sr.last, map |-> sr.starter], @)]
    /\ req' = [req EXCEPT ![p].pc = StageAfter("starter", req[p].currentTime)]
    /\ resp' = Answer(resp, p, StageAfter("starter", req[p].currentTime),
                      cachedTeamStats, cachedGoalieStats, sr.starter, cachedEspnData)
    /\ UNCHANGED <<now, cachedTeamStats, cachedGoalieStats, lastStatsFetch, cachedEspnData,
                   lastOddsFetch, gsVars, log>>

\* the await of line 238 returns to the invocation p
StarterArrive(p) ==
    /\ req[p].pc = "starter"
    /\ \E upNhl \in NhlResponses(now) :
          StarterInstall(p, StarterAfterAwait(cachedStarterData, lastStarterFetch,
                                              req[p].currentTime, upNhl))

\* lines 255-257 and on: the outcome od of the scoreboard download of p
OddsInstall(p, od) ==
    /\ cachedEspnData' = od.espn
    /\ lastOddsFetch' = od.last
    /\ good' = [good EXCEPT !.odds = Latest(od.out, [time |-> od.last, data |-> od.espn], @)]
    /\ req' = [req EXCEPT ![p].pc = "done"]
    /\ resp' = Answer(resp, p, "done", cachedTeamStats, cachedGoalieStats,
                      cachedStarterData, od.espn)
    /\ UNCHANGED <<now, cachedTeamStats, cachedGoalieStats, lastStatsFetch, cachedStarterData,
                   lastStarterFetch, gsVars, log>>

\* the await of line 254 returns to the invocation p
OddsArrive(p) ==
    /\ req[p].pc = "odds"
    /\ \E upEspn \in EspnResponses(now) :
          OddsInstall(p, OddsAfterAwait(cachedEspnData, lastOddsFetch,
                                        req[p].currentTime, upEspn))

NextOverlap ==
    \/ OverlapTick
    \/ \E p \in Procs : Arrive(p)
    \/ \E p \in Procs : StatsArrive(p)
    \/ \E p \in Procs : StarterArrive(p)
    \/ \E p \in Procs : OddsArrive(p)

SpecOverlap == InitOverlap /\ [][NextOverlap]_vars

(***************************************************************************)
(* Properties                                                              *)
(***************************************************************************)
\* r is a detail request that passes the parameter check
IsDetail(r) ==
    r # Null /\ "action" \in DOMAIN r /\ r.action # "schedule"
    /\ StrTruthy(r.home) /\ StrTruthy(r.away)

\* the step is a detail request of the savant-api function
DetailStep == now' = now /\ IsDetail(req')

\* the step is a request to the goalie-stats function
GoalieStep == now' = now /\ req' \in GsRequests

\* the upstream call named source is among the calls l records
Called(l, source) == \E i \in 1..Len(l.calls) : l.calls[i] = source

\* C1: when the refresh of a source fails and a previous snapshot of that
\* source exists, the snapshot after the request is the one before it and its
\* timestamp is unchanged (goalie-stats: the goalie table and the starter map)
C1_FailedRefreshKeepsSnapshot ==
    [][GoalieStep =>
        /\ (log'.stats = "fail" /\ gsCachedGoalieStats # Null) =>
              /\ gsCachedGoalieStats' = gsCachedGoalieStats
              /\ gsLastFetchTime' = gsLastFetchTime
        /\ (log'.starter = "fail" /\ gsCachedStarterData # Null) =>
              /\ gsCachedStarterData' = gsCachedStarterData
              /\ gsLastStarterFetchTime' = gsLastStarterFetchTime]_vars

\* C2: in every reachable state each source's snapshot is absent or is the
\* complete payload of one successful fetch: team table, goalie table and
\* timestamp come from the same fetch, and the starter map and the scoreboard
\* are those of one response that was read to the end
C2_SnapshotsComplete ==
    /\ cachedTeamStats # Null =>
          /\ good.stats # Null
          /\ cachedTeamStats = good.stats.teams
          /\ cachedGoalieStats = good.stats.goalies
          /\ lastStatsFetch = good.stats.time
    /\ cachedStarterData # Null =>
          /\ good.starter # Null
          /\ cachedStarterData = good.starter.map
          /\ lastStarterFetch = good.starter.time
    /\ cachedEspnData # Null =>
          /\ good.odds # Null
          /\ cachedEspnData = good.odds.data
          /\ lastOddsFetch = good.odds.time

\* C3: when the refresh of a source fails while a previous snapshot of it
\* exists (an earlier refresh succeeded), the detail request is answered with
\* a successful report built from that snapshot, for each of the three sources
C3_StaleSnapshotServed ==
    [][DetailStep =>
        /\ (log'.stats = "fail" /\ good.stats # Null) =>
              /\ resp'.statusCode = 200
              /\ resp' = DetailResponse(good.stats.teams, good.stats.goalies,
                                        cachedStarterData', cachedEspnData', req')
        /\ (log'.starter = "fail" /\ good.starter # Null) =>
              /\ resp'.statusCode = 200
              /\ resp' = DetailResponse(cachedTeamStats', cachedGoalieStats',
                                        good.starter.map, cachedEspnData', req')
        /\ (log'.odds = "fail" /\ good.odds # Null) =>
              /\ resp'.statusCode = 200
              /\ resp' = DetailResponse(cachedTeamStats', cachedGoalieStats',
                                        cachedStarterData', good.odds.data, req')]_vars

\* the goaltender of a team report was not taken from a starter projection
NoConfirmedGoalie(report) == report # Null => report.goalie.status # "Confirmed"

\* C4: when the refresh of a source fails and no previous snapshot of it
\* exists, the detail request is still answered with a well-shaped response
\* that uses the fallback values; no failed fetch makes the report an error
C4_DegradedNotFailed ==
    [][DetailStep =>
        /\ (log'.stats = "fail" /\ cachedTeamStats = Null) =>
              resp'.statusCode = 200
        /\ (log'.starter = "fail" /\ cachedStarterData = Null) =>
              /\ resp'.statusCode = 200
              /\ NoConfirmedGoalie(resp'.body.home)
              /\ NoConfirmedGoalie(resp'.body.away)
        /\ (log'.odds = "fail" /\ cachedEspnData = Null) =>
              /\ resp'.statusCode = 200
              /\ resp'.body.odds = NotFoundOdds]_vars

\* C5: on a detail request the refresh of a source is attempted exactly when
\* the source has no snapshot or the snapshot is older than its TTL (1 hour,
\* 15 minutes, 5 minutes), and a successful refresh sets the timestamp to the
\* time of the request
C5_RefreshIffDue ==
    [][DetailStep =>
        /\ Called(log', "teams") <=> (cachedTeamStats = Null \/ now - lastStatsFetch > 3600000)
        /\ Called(log', "goalies") <=> (cachedTeamStats = Null \/ now - lastStatsFetch > 3600000)
        /\ Called(log', "nhl") <=> (cachedStarterData = Null \/ now - lastStarterFetch > 900000)
        /\ Called(log', "espn") <=> (cachedEspnData = Null \/ now - lastOddsFetch > 300000)
        /\ log'.stats = "ok" => lastStatsFetch' = now
        /\ log'.starter = "ok" => lastStarterFetch' = now
        /\ log'.odds = "ok" => lastOddsFetch' = now]_vars

\* C6: a request calls each source at most once, and after a failed refresh of
\* a source the next detail request attempts the refresh of that source again
C6_RetryOnNextRequest ==
    [][DetailStep =>
        /\ \A i, j \in 1..Len(log'.calls) : log'.calls[i] = log'.calls[j] => i = j
        /\ log.stats = "fail" => Called(log', "teams")
        /\ log.starter = "fail" => Called(log', "nhl")
        /\ log.odds = "fail" => Called(log', "espn")]_vars

\* the table has a row for the team under some situation
HasRow(table, teamCode) ==
    \E i \in 1..Len(table) : normalizeTeamCode(Cell(table[i], "team")) = teamCode

\* C7: the team sub-report of a detail response is null exactly when the
\* table has no row at all for the team; a team with a row under any situation
\* gets a non-null report and the request does not fail
C7_NullIffNoRow ==
    (IsDetail(req) /\ resp # Null /\ log.stats # "fail") =>
        /\ HasRow(cachedTeamStats.v, normalizeTeamCode(req.home)) =>
              resp.statusCode = 200 /\ resp.body.home # Null
        /\ HasRow(cachedTeamStats.v, normalizeTeamCode(req.away)) =>
              resp.statusCode = 200 /\ resp.body.away # Null
        /\ (resp.statusCode = 200 /\ ~HasRow(cachedTeamStats.v, normalizeTeamCode(req.home))) =>
              resp.body.home = Null
        /\ (resp.statusCode = 200 /\ ~HasRow(cachedTeamStats.v, normalizeTeamCode(req.away))) =>
              resp.body.away = Null

\* the home report of the last response, when it is a report
HomeReported == IsDetail(req) /\ resp # Null /\ resp.statusCode = 200 /\ resp.body.home # Null

\* the two rows the home report was derived from
HomeRow == FindTeamRow(cachedTeamStats.v, normalizeTeamCode(req.home), Sit5on5)
HomeAllRow == FindTeamRow(cachedTeamStats.v, normalizeTeamCode(req.home), SitAll)

\* the share the two high-danger counts should give
HdcfShare(hdFor, hdAgainst) ==
    IF hdFor = Fin(0, 1) /\ hdAgainst = Fin(0, 1) THEN Fin(50, 1)
    ELSE JSMul(JSDiv(hdFor, JSAdd(hdFor, hdAgainst)), Fin(100, 1))

\* C8: the high-danger share of a report is 50 when both counts are 0 and
\* for / (for + against) * 100 otherwise, also when for is 0 and against is not
C8_HdcfShare ==
    HomeReported =>
        resp.body.home.hdcfPercent =
            HdcfShare(getFloat(HomeRow, <<"highDangerGoalsFor">>),
                      getFloat(HomeRow, <<"highDangerGoalsAgainst">>))

\* the numeric fields of a team report
NumericFields ==
    {"gfPerGame", "xgfPercent", "gaPerGame", "xgaPer60", "ppPercent", "pkPercent",
     "pimsPerGame", "corsiPercent", "faceoffPercent", "shootingPercent", "hdcfPercent"}

\* C9: whatever raw values the rows hold (zero or missing ice time, zero
\* penalties, missing columns), every numeric field of the report is a finite
\* number: none is NaN or an infinity (which the body shows as null)
C9_ReportFinite ==
    HomeReported =>
        /\ \A f \in NumericFields : IsFinite(resp.body.home[f])
        /\ \A f \in {"gsax", "gaa", "svPct"} : IsFinite(resp.body.home.goalie[f])

\* C10: a team with zero penalties drawn has a power-play percentage of 0 and
\* a team with zero penalties taken a penalty-kill percentage of 0, whatever
\* the power-play goals for and against
C10_ZeroOpportunities ==
    HomeReported =>
        /\ getFloat(HomeAllRow, <<"penaltiesDrawn", "penaltiesDrawnPer60">>) = Fin(0, 1) =>
              resp.body.home.ppPercent = Fin(0, 1)
        /\ getFloat(HomeAllRow, <<"penaltiesTaken", "penaltiesTakenPer60">>) = Fin(0, 1) =>
              resp.body.home.pkPercent = Fin(0, 1)

\* the penalty-minute rate the all-situations totals should give
PimsRate(pim, iceTime) ==
    IF JSGt(iceTime, Fin(0, 1)) THEN JSDiv(pim, JSDiv(iceTime, Fin(3600, 1)))
    ELSE Fin(8, 1)

\* C11: pimsPerGame is the penalty minutes over the all-situations ice time
\* in hours whenever the ice time is positive, also for 0 penalty minutes,
\* and the default 8.0 when the ice time is zero
C11_PimsPerGame ==
    HomeReported =>
        resp.body.home.pimsPerGame =
            PimsRate(getFloat(HomeAllRow, <<"penaltiesMinutes", "pim">>),
                     getFloat(HomeAllRow, <<"iceTime">>))

\* the 5on5 row of the scenario
ScenarioRow ==
    [team |-> TBay, situation |-> Sit5on5, iceTime |-> <<"1","2","0","0">>,
     xGoalsAgainst |-> <<"1","0">>]

\* C12: the xgaPer60 of the report of a team whose 5on5 row has ice time T > 0
\* and expected goals against X is (X / T) * 3600; with the row {team "T.B",
\* situation "5on5", iceTime "1200", xGoalsAgainst "10"} it is 30
C12_XgaPer60 ==
    HomeReported =>
        /\ JSGt(getFloat(HomeRow, <<"iceTime">>), Fin(0, 1)) =>
              resp.body.home.xgaPer60 =
                  JSMul(JSDiv(getFloat(HomeRow, <<"xGoalsAgainst">>),
                              getFloat(HomeRow, <<"iceTime">>)), Fin(3600, 1))
        /\ HomeRow = ScenarioRow => resp.body.home.xgaPer60 = Fin(30, 1)

\* a request for T.B answered from the export that holds the scenario's row
C12_Witness ==
    /\ HomeReported
    /\ req.home = TBay
    /\ HomeRow = ScenarioRow
    /\ resp.body.home.xgaPer60 = Fin(30, 1)

\* the code of the home team and the roster rows of that team
HomeCode == normalizeTeamCode(req.home)
HomeRoster == TeamGoalies(cachedGoalieStats.v, HomeCode)

\* the name the starter snapshot lists for the home team, UndefStr for none
HomeStarter ==
    IF cachedStarterData # Null /\ HomeCode \in DOMAIN cachedStarterData.v
    THEN cachedStarterData.v[HomeCode].name
    ELSE UndefStr

\* the last space-delimited token of a name
SurnameOf(name) ==
    SubSeq(name,
           CHOOSE i \in 1..(Len(name) + 1) :
               /\ \A j \in i..Len(name) : name[j] # " "
               /\ i = 1 \/ name[i - 1] = " ",
           Len(name))

\* the rows of a roster whose name contains the surname of wanted, in any case
Matching(roster, wanted) ==
    {i \in 1..Len(roster) :
        includes(toLowerCase(roster[i].name), toLowerCase(SurnameOf(wanted)))}

\* the first of them in table order
FirstMatching(roster, wanted) ==
    roster[CHOOSE i \in Matching(roster, wanted) :
               \A j \in Matching(roster, wanted) : i <= j]

\* C13: a requested goaltender name whose surname is contained, in any case,
\* in the name of a roster goaltender of the team attaches that goaltender
\* whatever the starter snapshot lists, with a status that is neither
\* confirmed nor projected
C13_CallerGoalie ==
    HomeReported /\ StrTruthy(req.homeGoalie)
                 /\ Matching(HomeRoster, req.homeGoalie) # {} =>
        /\ resp.body.home.goalie.name = FirstMatching(HomeRoster, req.homeGoalie).name
        /\ resp.body.home.goalie.status \notin {"Confirmed", "Projected #1"}

\* "stol" is requested for TOR while the snapshot lists J Woll
C13_Witness ==
    /\ HomeReported
    /\ req.home = TOR /\ req.homeGoalie = <<"s","t","o","l">>
    /\ HomeStarter = Woll
    /\ resp.body.home.goalie.name = Stolarz
    /\ resp.body.home.goalie.status = "Unconfirmed"

\* C14: without a requested name, a starter listed for the team that matches
\* a roster goaltender is attached with status confirmed; and with a requested
\* name the goaltender object is the one an absent snapshot gives
C14_ConfirmedStarter ==
    HomeReported =>
        /\ (~StrTruthy(req.homeGoalie) /\ HomeStarter # UndefStr
                                       /\ Matching(HomeRoster, HomeStarter) # {}) =>
              /\ resp.body.home.goalie.name = FirstMatching(HomeRoster, HomeStarter).name
              /\ resp.body.home.goalie.status = "Confirmed"
        /\ StrTruthy(req.homeGoalie) =>
              resp.body.home.goalie =
                  JsonReport(getSavantStats(cachedTeamStats.v, cachedGoalieStats.v, Null,
                                            HomeCode, req.homeGoalie)).goalie

\* the snapshot lists A Stol for TOR, who has played fewer games than J Woll
C14_Witness ==
    /\ HomeReported
    /\ req.home = TOR /\ ~StrTruthy(req.homeGoalie)
    /\ HomeStarter = Stolarz
    /\ resp.body.home.goalie.name = Stolarz
    /\ resp.body.home.goalie.status = "Confirmed"

\* neither the requested name nor the listed starter is found on the roster
NoneResolves ==
    IF StrTruthy(req.homeGoalie) THEN Matching(HomeRoster, req.homeGoalie) = {}
    ELSE HomeStarter = UndefStr \/ Matching(HomeRoster, HomeStarter) = {}

\* C15: when neither a requested name nor a listed starter resolves to a
\* roster row and the team has a roster goaltender, the attached goaltender is
\* one with the most games played among the team's, with status projected
C15_ProjectedFallback ==
    HomeReported /\ Len(HomeRoster) > 0 /\ NoneResolves =>
        /\ \E i \in 1..Len(HomeRoster) :
              /\ resp.body.home.goalie.name = HomeRoster[i].name
              /\ \A j \in 1..Len(HomeRoster) :
                    ~JSGt(GamesPlayed(HomeRoster[j]), GamesPlayed(HomeRoster[i]))
        /\ resp.body.home.goalie.status = "Projected #1"

\* no name is requested and no starter is listed for DAL, whose goaltender
\* with 3 games played comes first in the table
C15_Witness ==
    /\ HomeReported
    /\ req.home = DAL /\ ~StrTruthy(req.homeGoalie)
    /\ HomeStarter = UndefStr
    /\ Len(HomeRoster) = 2 /\ HomeRoster[1].name = DeSmith
    /\ resp.body.home.goalie.name = Oettinger
    /\ resp.body.home.goalie.status = "Projected #1"

\* a goaltender object with every field: a name, a status and finite numbers
WellShaped(g) ==
    /\ DOMAIN g = {"name", "status", "gsax", "gaa", "svPct"}
    /\ g.name # UndefStr
    /\ g.status \in {"Confirmed", "Unconfirmed", "Projected #1"}
    /\ \A f \in {"gsax", "gaa", "svPct"} : IsFinite(g[f])

\* the average-goaltender placeholder
IsPlaceholder(g) ==
    /\ g.name = AverageGoalieName
    /\ g.svPct = Fin(9, 10) /\ g.gsax = Fin(0, 1) /\ g.gaa = Fin(0, 1)

Answered == IsDetail(req) /\ resp # Null /\ resp.statusCode = 200

\* the market field for what the lookup found
MarketOf(gameOdds) == IF gameOdds = Null THEN NotFoundOdds ELSE gameOdds

\* the snapshot with the two competitors of every event listed in the other order
SwapCompetitors(espn) ==
    IF espn = Null THEN Null
    ELSE Box([events |->
                [i \in 1..Len(espn.v.events) |->
                    [espn.v.events[i] EXCEPT
                        !.competitors = <<espn.v.events[i].competitors[2],
                                          espn.v.events[i].competitors[1]>>]]])

\* C17: on the snapshot the response was computed from, the market line of the
\* request is the one of the request with home and away exchanged, and the
\* one found when the feed lists the competitors of each game in the other order
C17_MarketSymmetric ==
    Answered =>
        /\ resp.body.odds =
              MarketOf(GameOdds(cachedEspnData, normalizeTeamCode(req.away),
                                normalizeTeamCode(req.home)))
        /\ resp.body.odds =
              MarketOf(GameOdds(SwapCompetitors(cachedEspnData),
                                normalizeTeamCode(req.home), normalizeTeamCode(req.away)))

\* home=TOR, away=DAL is answered from a feed that lists DAL before TOR
C17_Witness ==
    /\ Answered
    /\ req.home = TOR /\ req.away = DAL
    /\ cachedEspnData = Box(EspnData3)
    /\ resp.body.odds.source = "ESPN" /\ resp.body.odds.line = "DAL -1.5"

\* the events of the snapshot whose two competitors are the requested pair
MatchingEvents ==
    {i \in 1..Len(cachedEspnData.v.events) :
        {normalizeTeamCode(cachedEspnData.v.events[i].competitors[1].abbreviation),
         normalizeTeamCode(cachedEspnData.v.events[i].competitors[2].abbreviation)}
            = {normalizeTeamCode(req.home), normalizeTeamCode(req.away)}}

\* there is no snapshot, or no game of it matches, or the first game that
\* matches shows no odds
NoMarket ==
    \/ cachedEspnData = Null
    \/ MatchingEvents = {}
    \/ cachedEspnData.v.events[CHOOSE i \in MatchingEvents :
                                   \A j \in MatchingEvents : i <= j].odds = <<>>

\* C18: when no game of the feed matches the pair, when the game that matches
\* has no odds, or when there is no snapshot, the request is answered and its
\* market field is the not-found sentinel with the default line and total
C18_NotFoundSentinel ==
    IsDetail(req) /\ resp # Null /\ NoMarket =>
        /\ resp.statusCode = 200
        /\ resp.body.odds # Null
        /\ resp.body.odds.source = "Not Found"
        /\ resp.body.odds.line = "OFF"
        /\ resp.body.odds.total = "6.5"

\* the scoreboard download failed and there was no snapshot before
C18_Witness ==
    /\ IsDetail(req) /\ resp # Null
    /\ cachedEspnData = Null /\ log.odds = "fail"
    /\ resp.statusCode = 200
    /\ resp.body.odds = NotFoundOdds

\* the franchises of the league: the 3-letter code of each and the spellings
\* the team table lists for it
Franchises ==
    {
     [code |-> <<"S","J","S">>,
      spellings |-> {<<"S",".","J">>,
                     <<"S","J">>,
                     <<"S","a","n"," ","J","o","s","e"," ","S","h","a","r","k","s">>}],
     [code |-> <<"T","B","L">>,
      spellings |-> {<<"T",".","B">>,
                     <<"T","B">>,
                     <<"T","a","m","p","a"," ","B","a","y"," ","L","i","g","h","t","n","i","n","g">>}],
     [code |-> <<"L","A","K">>,
      spellings |-> {<<"L",".","A">>,
                     <<"L","A">>,
                     <<"L","o","s"," ","A","n","g","e","l","e","s"," ","K","i","n","g","s">>}],
     [code |-> <<"N","J","D">>,
      spellings |-> {<<"N",".","J">>,
                     <<"N","J">>,
                     <<"N","e","w"," ","J","e","r","s","e","y"," ","D","e","v","i","l","s">>}],
     [code |-> <<"N","Y","R">>,
      spellings |-> {<<"N","Y","R">>,
                     <<"N","e","w"," ","Y","o","r","k"," ","R","a","n","g","e","r","s">>}],
     [code |-> <<"N","Y","I">>,
      spellings |-> {<<"N","Y","I">>,
                     <<"N","e","w"," ","Y","o","r","k"," ","I","s","l","a","n","d","e","r","s">>}],
     [code |-> <<"V","G","K">>,
      spellings |-> {<<"V","E","G">>,
                     <<"V","G","K">>,
                     <<"V","e","g","a","s"," ","G","o","l","d","e","n"," ","K","n","i","g","h","t","s">>}],
     [code |-> <<"M","T","L">>,
      spellings |-> {<<"M","T","L">>,
                     <<"M","o","n","t","r","e","a","l"," ","C","a","n","a","d","i","e","n","s">>}],
     [code |-> <<"V","A","N">>,
      spellings |-> {<<"V","A","N">>,
                     <<"V","a","n","c","o","u","v","e","r"," ","C","a","n","u","c","k","s">>}],
     [code |-> <<"T","O","R">>,
      spellings |-> {<<"T","O","R">>,
                     <<"T","o","r","o","n","t","o"," ","M","a","p","l","e"," ","L","e","a","f","s">>}],
     [code |-> <<"B","O","S">>,
      spellings |-> {<<"B","O","S">>,
                     <<"B","o","s","t","o","n"," ","B","r","u","i","n","s">>}],
     [code |-> <<"B","U","F">>,
      spellings |-> {<<"B","U","F">>,
                     <<"B","u","f","f","a","l","o"," ","S","a","b","r","e","s">>}],
     [code |-> <<"O","T","T">>,
      spellings |-> {<<"O","T","T">>,
                     <<"O","t","t","a","w","a"," ","S","e","n","a","t","o","r","s">>}],
     [code |-> <<"F","L","A">>,
      spellings |-> {<<"F","L","A">>,
                     <<"F","l","o","r","i","d","a"," ","P","a","n","t","h","e","r","s">>}],
     [code |-> <<"D","E","T">>,
      spellings |-> {<<"D","E","T">>,
                     <<"D","e","t","r","o","i","t"," ","R","e","d"," ","W","i","n","g","s">>}],
     [code |-> <<"P","I","T">>,
      spellings |-> {<<"P","I","T">>,
                     <<"P","i","t","t","s","b","u","r","g","h"," ","P","e","n","g","u","i","n","s">>}],
     [code |-> <<"W","S","H">>,
      spellings |-> {<<"W","S","H">>,
                     <<"W","a","s","h","i","n","g","t","o","n"," ","C","a","p","i","t","a","l","s">>}],
     [code |-> <<"P","H","I">>,
      spellings |-> {<<"P","H","I">>,
                     <<"P","h","i","l","a","d","e","l","p","h","i","a"," ","F","l","y","e","r","s">>}],
     [code |-> <<"C","B","J">>,
      spellings |-> {<<"C","B","J">>,
                     <<"C","o","l","u","m","b","u","s"," ","B","l","u","e"," ","J","a","c","k","e","t","s">>}],
     [code |-> <<"C","A","R">>,
      spellings |-> {<<"C","A","R">>,
                     <<"C","a","r","o","l","i","n","a"," ","H","u","r","r","i","c","a","n","e","s">>}],
     [code |-> <<"C","H","I">>,
      spellings |-> {<<"C","H","I">>,
                     <<"C","h","i","c","a","g","o"," ","B","l","a","c","k","h","a","w","k","s">>}],
     [code |-> <<"N","S","H">>,
      spellings |-> {<<"N","S","H">>,
                     <<"N","a","s","h","v","i","l","l","e"," ","P","r","e","d","a","t","o","r","s">>}],
     [code |-> <<"S","T","L">>,
      spellings |-> {<<"S","T","L">>,
                     <<"S","t","."," ","L","o","u","i","s"," ","B","l","u","e","s">>}],
     [code |-> <<"M","I","N">>,
      spellings |-> {<<"M","I","N">>,
                     <<"M","i","n","n","e","s","o","t","a"," ","W","i","l","d">>}],
     [code |-> <<"W","P","G">>,
      spellings |-> {<<"W","P","G">>,
                     <<"W","i","n","n","i","p","e","g"," ","J","e","t","s">>}],
     [code |-> <<"C","O","L">>,
      spellings |-> {<<"C","O","L">>,
                     <<"C","o","l","o","r","a","d","o"," ","A","v","a","l","a","n","c","h","e">>}],
     [code |-> <<"D","A","L">>,
      spellings |-> {<<"D","A","L">>,
                     <<"D","a","l","l","a","s"," ","S","t","a","r","s">>}],
     [code |-> <<"U","T","A">>,
      spellings |-> {<<"A","R","I">>,
                     <<"U","T","A">>,
                     <<"U","t","a","h"," ","H","o","c","k","e","y"," ","C","l","u","b">>}],
     [code |-> <<"E","D","M">>,
      spellings |-> {<<"E","D","M">>,
                     <<"E","d","m","o","n","t","o","n"," ","O","i","l","e","r","s">>}],
     [code |-> <<"C","G","Y">>,
      spellings |-> {<<"C","G","Y">>,
                     <<"C","a","l","g","a","r","y"," ","F","l","a","m","e","s">>}],
     [code |-> <<"A","N","A">>,
      spellings |-> {<<"A","N","A">>,
                     <<"A","n","a","h","e","i","m"," ","D","u","c","k","s">>}],
     [code |-> <<"S","E","A">>,
      spellings |-> {<<"S","E","A">>,
                     <<"S","e","a","t","t","l","e"," ","K","r","a","k","e","n">>}]
    }

\* C19: for every spelling the team table lists, normalizeTeamCode returns
\* the 3-letter code of the franchise, the same for all spellings of the
\* franchise, and applied to that code it returns the code unchanged
C19_TableNormalize ==
    resp # Null /\ resp.by = "normalizeTeamCode" =>
        \A f \in Franchises :
            /\ resp.input \in f.spellings =>
                  /\ resp.code = f.code
                  /\ Len(resp.code) = 3
                  /\ normalizeTeamCode(resp.code) = resp.code
            /\ resp.input = f.code => resp.code = f.code

\* the code SJS, returned for a spelling, was normalized again
C19_Witness ==
    /\ resp # Null /\ resp.by = "normalizeTeamCode"
    /\ resp.input = <<"S","J","S">>
    /\ resp.input \notin DOMAIN TeamMap
    /\ resp.code = <<"S","J","S">>

\* C20: every normalizer returns UTA for the retired code ARI and for the
\* active code UTA
C20_RelocatedFranchise ==
    resp # Null /\ "by" \in DOMAIN resp
                /\ resp.input \in {<<"A","R","I">>, <<"U","T","A">>} =>
        resp.code = <<"U","T","A">>

\* C21: for a non-empty input the team table does not list, normalizeTeamCode
\* (of either function) returns what every other call returns for it, a
\* string of exactly 3 characters: the first three of the input in upper case
C21_FallbackCode ==
    resp # Null /\ "by" \in DOMAIN resp /\ resp.by # "normalizeTeam"
                /\ StrTruthy(resp.input) /\ resp.input \notin DOMAIN TeamMap =>
        /\ resp.code = normalizeTeamCode(resp.input)
        /\ Len(resp.code) = 3
        /\ resp.code = toUpperCase(SubSeq(resp.input, 1, 3))

\* the cell of the row under a key is present, non-empty and parses as a
\* finite number
Qualifies(row, key) ==
    /\ key \in DOMAIN row
    /\ row[key] # <<>>
    /\ IsFinite(parseFloat(row[key]))

\* the positions of the key list whose key qualifies
Qualifying(row, keys) == {i \in 1..Len(keys) : Qualifies(row, keys[i])}

\* the parsed value under the first qualifying key, 0 when there is none
FirstNumeric(row, keys) ==
    IF Qualifying(row, keys) = {} THEN Fin(0, 1)
    ELSE parseFloat(row[keys[CHOOSE i \in Qualifying(row, keys) :
                                 \A j \in Qualifying(row, keys) : i <= j]])

\* C22: getFloat returns the parsed value of the first key of the list whose
\* cell is present, non-empty and parses as a finite number, and 0 when no
\* key qualifies
C22_FirstNumeric ==
    resp # Null /\ "value" \in DOMAIN resp =>
        resp.value = FirstNumeric(req.row, req.keys)

\* a request of the savant-api function that is not for the schedule and
\* lacks the home or the away team
LacksTeam(r) ==
    /\ r # Null /\ "action" \in DOMAIN r /\ r.action # "schedule"
    /\ ~StrTruthy(r.home) \/ ~StrTruthy(r.away)

\* C23: a detail request without the home or the away team is answered with
\* status 400 and without a report of either team
C23_MissingTeamRejected ==
    LacksTeam(req) =>
        /\ resp.statusCode = 400
        /\ "home" \notin DOMAIN resp.body /\ "away" \notin DOMAIN resp.body

\* a request with away=BOS and no home was answered
C23_Witness ==
    /\ LacksTeam(req)
    /\ req.home = UndefStr /\ req.away = BOS
    /\ resp.statusCode = 400

\* C24: a schedule request is answered with status 200, from the last good
\* scoreboard snapshot or with an empty list of games, also when the
\* scoreboard download fails
C24_ScheduleNeverFails ==
    req # Null /\ "action" \in DOMAIN req /\ req.action = "schedule" =>
        resp.statusCode = 200 /\ "games" \in DOMAIN resp.body

\* the step is a request to the savant-api function that lacks a team
RejectedStep == now' = now /\ LacksTeam(req')

RosterOf(side) == TeamGoalies(cachedGoalieStats.v, normalizeTeamCode(req[side]))
StarterOf(side) ==
    IF cachedStarterData # Null
           /\ normalizeTeamCode(req[side]) \in DOMAIN cachedStarterData.v
    THEN cachedStarterData.v[normalizeTeamCode(req[side])].name
    ELSE UndefStr

\* C29: a goaltender object with status confirmed is a roster row of the team
\* whose name matches the starter the snapshot lists for the team, and is
\* never the average-goaltender placeholder
C29_ConfirmedIsRosterStarter ==
    Answered =>
        \A side \in {"home", "away"} :
            (resp.body[side] # Null /\ resp.body[side].goalie.status = "Confirmed") =>
                /\ ~IsPlaceholder(resp.body[side].goalie)
                /\ StarterOf(side) # UndefStr
                /\ \E i \in Matching(RosterOf(side), StarterOf(side)) :
                      resp.body[side].goalie.name = RosterOf(side)[i].name

\* C28: a detail request writes the snapshots and the timestamp of a source
\* only when it calls that source: computing the two reports and the market
\* line, the fallback's sort by games played included, writes none of them
C28_ReportsLeaveCaches ==
    [][DetailStep =>
          /\ ~Called(log', "teams") =>
                UNCHANGED <<cachedTeamStats, cachedGoalieStats, lastStatsFetch>>
          /\ ~Called(log', "nhl") => UNCHANGED <<cachedStarterData, lastStarterFetch>>
          /\ ~Called(log', "espn") => UNCHANGED <<cachedEspnData, lastOddsFetch>>]_vars

\* a request answered without any upstream call, whose home goaltender came
\* from the fallback's sort and is not the first of the team in the cached
\* table, and whose market line was found
C28_Witness ==
    /\ Answered /\ log.calls = <<>>
    /\ resp.body.home # Null /\ resp.body.home.goalie.status = "Projected #1"
    /\ Len(HomeRoster) > 1 /\ resp.body.home.goalie.name # HomeRoster[1].name
    /\ resp.body.odds # NotFoundOdds

\* the ice time of a row of the goaltender table, as goalie-stats reads it
IceTimeOf(row) == getFloat(row, <<"iceTime", "Icetime", "timeOnIce", "icetime">>)

\* the rows of the cached table a filtered list should hold: positive ice
\* time, the team of a supplied team filter, a name containing a supplied name
\* filter in any case
Listed(r) ==
    {i \in 1..Len(gsCachedGoalieStats.v) :
        /\ JSGt(IceTimeOf(gsCachedGoalieStats.v[i]), Fin(0, 1))
        /\ StrTruthy(r.team) =>
              gsNormalizeTeamCode(gsCachedGoalieStats.v[i].team) = gsNormalizeTeamCode(r.team)
        /\ StrTruthy(r.name) =>
              includes(toLowerCase(gsCachedGoalieStats.v[i].name), toLowerCase(r.name))}

\* C25: the list returned for optional team and name filters holds exactly
\* the goaltenders with positive ice time that pass every supplied filter,
\* confirmed starters before the others and, among starters and among the
\* others, in descending order of GSAx per 60
C25_GoalieList ==
    req \in GsListRequests /\ resp.statusCode = 200 =>
        /\ Len(resp.body.goalies) = Cardinality(Listed(req))
        /\ resp.body.count = Cardinality(Listed(req))
        /\ \A i \in Listed(req) :
              \E j \in 1..Len(resp.body.goalies) :
                  /\ resp.body.goalies[j].name = gsCachedGoalieStats.v[i].name
                  /\ resp.body.goalies[j].team =
                         gsNormalizeTeamCode(gsCachedGoalieStats.v[i].team)
        /\ \A j \in 1..Len(resp.body.goalies) :
              resp.body.goalies[j].starter.isStarter =>
                  resp.body.goalies[j].starter.status = "confirmed"
        /\ \A j \in 1..Len(resp.body.goalies), k \in 1..Len(resp.body.goalies) :
              j < k =>
                  /\ resp.body.goalies[k].starter.isStarter =>
                         resp.body.goalies[j].starter.isStarter
                  /\ resp.body.goalies[j].starter.isStarter
                         = resp.body.goalies[k].starter.isStarter =>
                         ~JSGt(resp.body.goalies[k].stats.gsaxPer60,
                               resp.body.goalies[j].stats.gsaxPer60)

\* team=dal and name=E leave the two goaltenders of DAL; the starter, with
\* -0.5 per 60, stands before the other, with 5
C25_Witness ==
    /\ req \in GsListRequests /\ resp.statusCode = 200
    /\ req.team = <<"d","a","l">> /\ req.name = <<"E">>
    /\ Len(gsCachedGoalieStats.v) = 6
    /\ Len(resp.body.goalies) = 2
    /\ resp.body.goalies[1].name = Oettinger /\ resp.body.goalies[1].starter.isStarter
    /\ resp.body.goalies[2].name = DeSmith /\ ~resp.body.goalies[2].starter.isStarter
    /\ JSGt(resp.body.goalies[2].stats.gsaxPer60, resp.body.goalies[1].stats.gsaxPer60)

\* the statistics, the starter and the odds caches hold what the latest
\* successful refresh installed, timestamp included, or nothing yet
StatsWhole ==
    IF good.stats = Null
    THEN cachedTeamStats = Null /\ cachedGoalieStats = Null /\ lastStatsFetch = 0
    ELSE /\ cachedTeamStats = good.stats.teams /\ cachedGoalieStats = good.stats.goalies
         /\ lastStatsFetch = good.stats.time
StarterWhole ==
    IF good.starter = Null THEN cachedStarterData = Null /\ lastStarterFetch = 0
    ELSE cachedStarterData = good.starter.map /\ lastStarterFetch = good.starter.time
OddsWhole ==
    IF good.odds = Null THEN cachedEspnData = Null /\ lastOddsFetch = 0
    ELSE cachedEspnData = good.odds.data /\ lastOddsFetch = good.odds.time

\* the invocation p waits for the download of a source
InFlight(p, source) == req[p].pc = source

\* C26: while the refresh of a source by one of two overlapping requests is
\* in flight, what the other request can read of that source is a whole
\* snapshot with its own timestamp, the previous or the new one
C26_WholeSnapshots ==
    \A p \in Procs :
        \A q \in Procs \ {p} :
            req[q].pc # "idle" =>
                /\ InFlight(p, "stats") => StatsWhole
                /\ InFlight(p, "starter") => StarterWhole
                /\ InFlight(p, "odds") => OddsWhole

\* C27: no step of two overlapping requests moves the last-refreshed
\* timestamp of a source backwards
C27_TimestampsNeverDecrease ==
    [][/\ lastStatsFetch' >= lastStatsFetch
       /\ lastStarterFetch' >= lastStarterFetch
       /\ lastOddsFetch' >= lastOddsFetch]_vars

====
